---- MODULE Spec2Model ----
(***************************************************************************)
(* The FastCGI spawner (Spawner in cmd/spawner): the registry of child     *)
(* processes guarded by childProcessesMu, getOrCreateChild with its health *)
(* check and its two launch modes, the idle reaper cleanupChildProcesses,  *)
(* the binary watcher watchFcgiBinaries and proxyRequest.                  *)
(*                                                                         *)
(* A child process is named by its pid; pids are never reused.  A          *)
(* childProcess object is named by the pid of the process it wraps, so a   *)
(* request handler that still holds a *childProcess the registry has       *)
(* dropped holds a pid that is no longer in childProcesses.                *)
(***************************************************************************)
EXTENDS Integers, FiniteSets, Sequences, TLC

\* ------------------------------------------------------------- bounds
MaxPid == 2
MaxMod == 2
\* The longest request path, in segments.
MaxSegs == 3
\* The longest environment file, in lines.
MaxLines == 2

Handlers == {"h1", "h2"}
Pids == 1..MaxPid

\* The worker binaries under WebRoot (each name ends in ".fcgi"), and one
\* other file of WebRoot that is no worker binary.
Apps == {"a.fcgi", "b.fcgi"}
OtherFile == "notes.txt"

\* The values of -idleTimeout, in clock ticks: zero disables idle eviction.
IdleTimeouts == {0, 1}

HasSuffixFcgi(name) == name \in Apps

\* The tasks that take the mutex.
Task(kind, h) == [task |-> kind, id |-> h]
NoHolder == Task("none", "")
Reaper == Task("reaper", "")
Watcher == Task("watcher", "")
Handler(h) == Task("handler", h)
NoChild == [pid |-> 0, idle |-> 0, binaryModTime |-> 0, listener |-> FALSE,
            socketPath |-> <<>>]
NoProc == [app |-> "", st |-> "none", args |-> <<>>, stdin |-> "", image |-> 0]
NoEvent == ""
IdleReq == [pc |-> "idle", app |-> "", currentModTime |-> 0, child |-> 0,
            cmd |-> 0, status |-> 0, err |-> ""]

\* main: before NewSpawner, and with the server and the watcher running.
\* registry tells whether the map childProcesses has been made, and
\* staticFileServer whether the Spawner has one.
Starting == [pc |-> "start", cause |-> "", watcher |-> "off", registry |-> "nil",
             staticFileServer |-> FALSE]
Serving == [pc |-> "running", cause |-> "", watcher |-> "on", registry |-> "made",
            staticFileServer |-> FALSE]

\* The request of the dispatcher: the URL path, what spawnerHandler made of
\* it (targetPath, whether os.Stat was called and what it found, the path
\* given to getOrCreateChild), what proxyRequest was given and built, what the
\* worker answered, what the static root held and what was written to the
\* client.
NoRequest == [method |-> "", contentLength |-> 0, header |-> <<>>]
NoResponse == [status |-> 0, header |-> {}, body |-> ""]
IdleHttp == [pc |-> "idle", path |-> <<>>, targetPath |-> <<>>, statted |-> FALSE,
             fileInfo |-> "", identity |-> <<>>, request |-> NoRequest, env |-> <<>>,
             worker |-> NoResponse, staticInfo |-> "", response |-> NoResponse,
             listing |-> {}]

\* A call of getOrCreateChild seen in full, from the entry it finds unusable to
\* the start of the new process.  Of the old entry: found (there was one), old
\* (its process: "serving", "exited", "reaped"), entry (it is in the map),
\* transport (its listener is open or its socket file there), sigs (the
\* signals sent to it), exitedInGrace (it exited during the sleep) and alive
\* (what the signal 0 after the sleep said).  Of the launch: whether the .env
\* file is there and its lines, childEnv (nil when childEnvSet is FALSE), and
\* the environment the started process has.
IdleLaunch == [pc |-> "idle", found |-> FALSE, old |-> "", entry |-> FALSE,
               transport |-> FALSE, sigs |-> <<>>, exitedInGrace |-> FALSE,
               alive |-> "",
               exists |-> FALSE, file |-> <<>>, childEnvSet |-> FALSE,
               childEnv |-> <<>>, environ |-> <<>>]

\* A cycle of cleanupChildProcesses seen entry by entry: entries (the apps
\* registered when the mutex was taken), todo (those the range loop has yet
\* to produce), visited, and logged (the errors written to the log, each with
\* the app it was about).
IdleCycle == [pc |-> "sleep", entries |-> {}, todo |-> {}, visited |-> {},
              logged |-> {}]

VARIABLES
    DefaultIdleTimeout, \* Config.DefaultIdleTimeout, in clock ticks
    SocketDir,          \* Config.SocketDir: "" selects the inherited-listener mode
    childProcessesMu,   \* the task that holds the mutex, or NoHolder
    childProcesses,     \* app -> the registered childProcess, or NoChild
    proc,               \* pid -> [app, st, args, stdin, image]: the process as the system
                        \* has it, image being the modification time of the binary it runs
    killed,             \* pids the spawner sent SIGKILL and has not waited on
    fileMod,            \* app -> modification time of the binary on disk
    sockFile,           \* app -> pid that bound the socket file of the app, 0: no file
    listeners,          \* pids whose spawner-side net.Listener is open
    watcherEvent,       \* the event the watcher is handling under the mutex
    req,                \* handler -> its request: pc, locals, response status
    StaticRoot,         \* Config.StaticRoot: "" disables the static file server
    gateway,            \* main: where the process is, and what ended it
    http,               \* the request the dispatcher is looked at with, in full
    launch,             \* the environment file of a launch and what is made of it
    cycle               \* the reaper's cycle seen entry by entry

vars == <<DefaultIdleTimeout, SocketDir, childProcessesMu, childProcesses, proc,
          killed, fileMod, sockFile, listeners, watcherEvent, req,
          StaticRoot, gateway, http, launch, cycle>>

config == <<DefaultIdleTimeout, SocketDir>>
os == <<proc, killed, sockFile, listeners>>
front == <<StaticRoot, gateway, http, launch, cycle>>
back == <<DefaultIdleTimeout, SocketDir, childProcessesMu, childProcesses, proc,
          killed, fileMod, sockFile, listeners, watcherEvent, req>>

\* --------------------------------------------------- paths and strings

\* A path is the sequence of its segments; the segments requests are made of.
Segs == {"..", "etc", "passwd", "my-app.fcgi", ".git"}
SeqsUpTo(S, n) == UNION {[1..k -> S] : k \in 0..n}
Paths == SeqsUpTo(Segs, MaxSegs)

\* Config.WebRoot (the default of -webRoot), and the static root when one is set.
WebRoot == <<"web">>

\* strings.HasSuffix(name, ".fcgi") and strings.HasPrefix(name, ".") on a segment.
FcgiNames == {"my-app.fcgi"}
DotNames == {"..", ".git", "."}

\* filepath.Clean of a rooted path: "." is dropped, ".." drops the segment
\* before it, and at the root it is dropped itself.
RECURSIVE CleanFrom(_, _)
CleanFrom(stack, rest) ==
    IF rest = <<>> THEN stack
    ELSE LET x == Head(rest)
         IN  IF x = "." THEN CleanFrom(stack, Tail(rest))
             ELSE IF x = ".."
             THEN CleanFrom(IF stack = <<>> THEN <<>>
                            ELSE SubSeq(stack, 1, Len(stack) - 1), Tail(rest))
             ELSE CleanFrom(Append(stack, x), Tail(rest))
Clean(path) == CleanFrom(<<>>, path)

\* filepath.Base: the last segment, and "/" for the path of no segment.
Base(path) == IF path = <<>> THEN "/" ELSE path[Len(path)]

\* filepath.Join(root, name) for a name that is one segment or "/".
Join(root, name) == Clean(root \o (IF name = "/" THEN <<>> ELSE <<name>>))

\* strings.HasPrefix(path, root), on paths cleaned from the same root.
HasPrefix(path, root) ==
    /\ Len(path) >= Len(root)
    /\ SubSeq(path, 1, Len(root)) = root

\* Header names are sequences of letters, "-" and "_" (the words of
\* Content-Type count as letters); strings.ToUpper and
\* strings.Replace(name, "-", "_", -1).
UpperChar(ch) ==
    CASE ch = "a" -> "A"
      [] ch = "Content" -> "CONTENT"
      [] ch = "Type" -> "TYPE"
      [] OTHER -> ch
ToUpper(str) == [i \in 1..Len(str) |-> UpperChar(str[i])]

\* A replacement that replaces nothing.
ReplaceNone(str) == str

ReplaceHyphens(str) == [i \in 1..Len(str) |-> IF str[i] = "-" THEN "_" ELSE str[i]]

\* fmt.Sprintf("%d", n): the decimal digits of n, after "-" for a negative n.
Digit(d) == <<"0", "1", "2", "3", "4", "5", "6", "7", "8", "9">>[d + 1]
RECURSIVE Digits(_)
Digits(n) == IF n < 10 THEN <<Digit(n)>> ELSE Append(Digits(n \div 10), Digit(n % 10))
Sprintf_d(n) == IF n < 0 THEN <<"-">> \o Digits(0 - n) ELSE Digits(n)

\* ------------------------------------------------------------ helpers

useSocketMode == SocketDir # ""

\* A process is "started" from cmd.Start until it listens on (socket mode) or
\* accepts from (inherited listener) its transport, then "serving"; "exited"
\* once it has terminated and nobody has waited on it; "reaped" after Wait.
RunningSt == {"started", "serving"}

\* The pids not yet given to a process, and the next one.
FreePids == {p \in Pids : proc[p].st = "none"}
NextPid == CHOOSE p \in FreePids : \A q \in FreePids : p <= q

\* Calls of getOrCreateChild that may still start a process.
MayStart == {h \in Handlers : req[h].pc \in {"goc_lock", "goc_stat", "goc_retire", "goc_spawn"}}

\* time.Since(child.lastUsed) is kept instead of lastUsed and the clock: the
\* field idle counts the ticks since lastUsed was set, up to the first value
\* the reaper's comparison cannot tell from a larger one.
IdleCap == DefaultIdleTimeout + 1

\* execCmdWrapper.ProcessState returns exec.Cmd.ProcessState, which only
\* exec.Cmd.Wait sets.  The spawner never calls Cmd.Wait (it waits on
\* cmd.Process), so the field is nil for every child, exited or not.
ProcessState(p) == "nil"
Exited(ps) == ps = "exited"

\* The results Process.Signal(syscall.Signal(0)) == nil can have.  A running
\* process answers nil; a process that was waited on answers an error.  For a
\* process that exited and was not waited on (a zombie) the kernel still
\* delivers signal 0 (nil), while the test double mockProcess reports the
\* error for an exited process: both results are kept.
Signal0NilOf(st) ==
    CASE st \in RunningSt -> {TRUE}
      [] st = "exited" -> {TRUE, FALSE}
      [] OTHER -> {FALSE}
Signal0Nil(p) == Signal0NilOf(proc[p].st)

\* Process.Kill: a running process dies and stays a zombie until waited on.
KillProc(pr, p) == IF pr[p].st \in RunningSt THEN [pr EXCEPT ![p].st = "exited"] ELSE pr
\* A wait that is not made.
WaitSkipped(pr, p) == pr

\* Process.Wait on a process that has exited: it is reaped, and the operating
\* system keeps nothing of it.
Reaped == [app |-> "", st |-> "reaped", args |-> <<>>, stdin |-> "", image |-> 0]
WaitProc(pr, p) == [pr EXCEPT ![p] = Reaped]

\* The abstract address of an app is bound while a listener on it is open.
AddrInUse(a) == \E p \in listeners : proc[p].app = a

\* net.Dial("unix", socketPath) connects: to the process that bound the socket
\* file and listens on it, or (abstract address) to any open listening socket,
\* which queues the connection whether or not anybody accepts.
DialOk(a) ==
    IF useSocketMode
    THEN sockFile[a] # 0 /\ proc[sockFile[a]].st = "serving"
    ELSE AddrInUse(a)

\* A process serves the connections made to the app's transport.
Served(a) == \E p \in Pids : proc[p].app = a /\ proc[p].st = "serving"

\* A connection made to an open listening socket that nobody accepts from stays
\* queued: the exchange neither completes nor fails.
Queued(a) == ~useSocketMode /\ AddrInUse(a) /\ ~Served(a)

\* ---------------------------------------------------------------- Init

\* NewSpawner: an empty registry; main: nothing runs yet.
Init ==
    /\ DefaultIdleTimeout \in IdleTimeouts
    /\ SocketDir \in {"", "/sock"}
    /\ childProcessesMu = NoHolder
    /\ childProcesses = [a \in Apps |-> NoChild]
    /\ proc = [p \in Pids |-> NoProc]
    /\ killed = {}
    /\ fileMod = [a \in Apps |-> 1]
    /\ sockFile = [a \in Apps |-> 0]
    /\ listeners = {}
    /\ watcherEvent = NoEvent
    /\ req = [h \in Handlers |-> IdleReq]
    /\ StaticRoot = ""
    /\ gateway = Serving
    /\ http = IdleHttp
    /\ launch = IdleLaunch
    /\ cycle = IdleCycle

\* ------------------------------------------------------ request handler

\* A handler that goes on to proxyRequest without getOrCreateChild.
spawnerHandlerDirect(h, a) ==
    /\ req[h].pc = "idle"
    /\ req' = [req EXCEPT ![h] = [IdleReq EXCEPT !.pc = "proxy_lock", !.app = a]]
    /\ UNCHANGED <<front, config, childProcessesMu, childProcesses, os, fileMod,
                   watcherEvent>>

\* spawnerHandler: os.Stat of the target says whether it is an executable
\* worker binary (the file may be there or not at the time of the call); if
\* so the handler goes on to getOrCreateChild, else it answers without it.
spawnerHandler(h, a) ==
    /\ req[h].pc = "idle"
    /\ Cardinality(FreePids) > Cardinality(MayStart)
    /\ \E isApp \in BOOLEAN :
          req' = [req EXCEPT ![h] = IF isApp
                    THEN [IdleReq EXCEPT !.pc = "goc_lock", !.app = a]
                    ELSE [IdleReq EXCEPT !.pc = "done", !.app = a, !.status = 404]]
    /\ UNCHANGED <<front, config, childProcessesMu, childProcesses, os, fileMod,
                   watcherEvent>>

\* A mutex that excludes nobody.
MutexFreeAlways == TRUE

\* s.childProcessesMu.Lock() returns only while nobody holds the mutex.
MutexFree == childProcessesMu = NoHolder

\* getOrCreateChild, entry: the handler takes the mutex.
getOrCreateChild_Lock(h) ==
    /\ req[h].pc = "goc_lock"
    /\ MutexFree
    /\ childProcessesMu' = Handler(h)
    /\ req' = [req EXCEPT ![h].pc = "goc_stat"]
    /\ UNCHANGED <<front, config, childProcesses, os, fileMod, watcherEvent>>

\* A health check that accepts no entry.
HealthNever(c, currentModTime) == FALSE

\* The health check of an existing entry against the binary's current
\* modification time.
HealthOk(c, currentModTime) ==
    /\ (ProcessState(c.pid) = "nil" \/ ~Exited(ProcessState(c.pid)))
    /\ ~(currentModTime > c.binaryModTime)

\* An entry whose lastUsed is left as it was.
TouchNothing(c) == c

\* A use that also stamps the entry with a modification time.
TouchRestamp(c) == [c EXCEPT !.idle = 0, !.binaryModTime = MaxMod]

\* child.lastUsed = time.Now()
Touch(c) == [c EXCEPT !.idle = 0]

\* An error after which the launch is tried again instead of returned.
ReturnErrRetry(h, e) ==
    /\ UNCHANGED childProcessesMu
    /\ req' = [req EXCEPT ![h].pc = "goc_spawn"]

\* A return with an error that leaves the mutex locked.
ReturnErrHolding(h, e) ==
    /\ UNCHANGED childProcessesMu
    /\ req' = [req EXCEPT ![h] = [IdleReq EXCEPT !.pc = "done", !.app = req[h].app,
                                                 !.status = 500, !.err = e]]

\* return nil, err (e tells which error): the deferred Unlock runs and the
\* handler answers 500.
ReturnErr(h, e) ==
    /\ childProcessesMu' = NoHolder
    /\ req' = [req EXCEPT ![h] = [IdleReq EXCEPT !.pc = "done", !.app = req[h].app,
                                                 !.status = 500, !.err = e]]

\* return child, nil: the deferred Unlock runs and the handler goes on to
\* proxyRequest with the child.
ReturnChild(h, p) ==
    /\ childProcessesMu' = NoHolder
    /\ req' = [req EXCEPT ![h] = [IdleReq EXCEPT !.pc = "proxy_lock", !.app = req[h].app,
                                                 !.child = p]]

\* getOrCreateChild, os.Stat and the lookup: the binary is gone (error), the
\* entry is usable (lastUsed is set and the entry returned), the entry is
\* unusable (SIGTERM is sent and the grace period starts), or there is none.
\* The local variable child keeps the entry that was found.
getOrCreateChild_Check(h) ==
    LET a == req[h].app
        c == childProcesses[a]
    IN  /\ req[h].pc = "goc_stat"
        /\ \E exists \in BOOLEAN :
              IF ~exists
              THEN /\ ReturnErr(h, "stat")
                   /\ UNCHANGED childProcesses
              ELSE IF c # NoChild /\ HealthOk(c, fileMod[a])
              THEN /\ childProcesses' = [childProcesses EXCEPT ![a] = Touch(c)]
                   /\ ReturnChild(h, c.pid)
              ELSE /\ req' = [req EXCEPT ![h].pc = IF c # NoChild THEN "goc_retire"
                                                                 ELSE "goc_spawn",
                                         ![h].currentModTime = fileMod[a],
                                         ![h].child = c.pid]
                   /\ UNCHANGED <<childProcesses, childProcessesMu>>
        /\ UNCHANGED <<front, config, os, fileMod, watcherEvent>>

\* Releasing a child's transport: listener.Close() if it has a listener,
\* else os.Remove(socketPath).
CloseListener(ls, c) == IF c.listener THEN ls \ {c.pid} ELSE ls
RemoveSocket(sf, a, c) == IF c.listener THEN sf ELSE [sf EXCEPT ![a] = 0]

\* An entry that stays in the map.
DeleteNothing(cp, a) == cp

\* A delete that empties the map.
DeleteAll(cp, a) == [b \in Apps |-> NoChild]

\* delete(s.childProcesses, appPath)
Delete(cp, a) == [cp EXCEPT ![a] = NoChild]

\* getOrCreateChild, after SIGTERM and the grace period: kill if signal 0
\* still reaches the process, wait for it, release its transport, delete the
\* entry.
getOrCreateChild_Retire(h) ==
    LET a == req[h].app
        c == childProcesses[a]
    IN  /\ req[h].pc = "goc_retire"
        /\ \E alive \in Signal0Nil(c.pid) :
              /\ proc' = WaitProc(IF alive THEN KillProc(proc, c.pid) ELSE proc, c.pid)
              /\ killed' = killed \ {c.pid}
        /\ listeners' = CloseListener(listeners, c)
        /\ sockFile' = RemoveSocket(sockFile, a, c)
        /\ childProcesses' = Delete(childProcesses, a)
        /\ req' = [req EXCEPT ![h].pc = "goc_spawn"]
        /\ UNCHANGED <<front, config, childProcessesMu, fileMod, watcherEvent>>

\* The path getOrCreateChild is called with for an app: targetPath of
\* spawnerHandler.
appPath(a) == Join(WebRoot, a)

\* A socket path that is the same for every app.
socketPathShared(a) ==
    IF useSocketMode THEN <<SocketDir, "app", ".sock">>
    ELSE <<"@/tmp/fcgi-spawner-sockets", "app", ".sock">>

\* The socket path of an app: <SocketDir>/<base name>.sock, or the abstract
\* address (written with a leading "@") made from the base name.
socketPath(a) ==
    IF useSocketMode THEN <<SocketDir, Base(appPath(a)), ".sock">>
    ELSE <<"@/tmp/fcgi-spawner-sockets", Base(appPath(a)), ".sock">>

\* A command with no argument and nothing for standard input.
CommandBare(a) == [args |-> <<>>, stdin |-> "none"]

\* exec.Command and cmd.Stdin: the socket path as the one argument, or no
\* argument and the listener's file as standard input.
Command(a) ==
    IF useSocketMode THEN [args |-> <<socketPath(a)>>, stdin |-> "none"]
    ELSE [args |-> <<>>, stdin |-> "listener"]

\* getOrCreateChild, from the .env file to cmd.Start.  "envErr": the .env file
\* or the socket directory cannot be opened or made, before anything is touched.
\* Then socket mode removes the old socket file and the other mode listens on
\* the abstract address, which fails while that address is bound.  "startErr":
\* a pipe or cmd.Start fails (the binary may be gone or unfit to run) and the
\* listener is closed again.  "ok": the process runs.
getOrCreateChild_Start(h) ==
    LET a == req[h].app
        p == NextPid
        sf == IF useSocketMode THEN [sockFile EXCEPT ![a] = 0] ELSE sockFile
    IN  /\ req[h].pc = "goc_spawn"
        /\ \E outcome \in {"ok", "envErr", "startErr"} :
              IF outcome = "envErr"
              THEN /\ ReturnErr(h, "env")
                   /\ UNCHANGED <<proc, sockFile, listeners>>
              ELSE IF ~useSocketMode /\ AddrInUse(a)
              THEN /\ ReturnErr(h, "listen")
                   /\ UNCHANGED <<proc, sockFile, listeners>>
              ELSE IF outcome = "startErr"
              THEN /\ ReturnErr(h, "start")
                   /\ sockFile' = sf
                   /\ UNCHANGED <<proc, listeners>>
              ELSE /\ proc' = [proc EXCEPT ![p] = [app |-> a, st |-> "started",
                                                    args |-> Command(a).args,
                                                    stdin |-> Command(a).stdin,
                                                    image |-> fileMod[a]]]
                   /\ sockFile' = sf
                   /\ listeners' = IF useSocketMode THEN listeners ELSE listeners \cup {p}
                   /\ req' = [req EXCEPT ![h].pc = "goc_probe", ![h].cmd = p]
                   /\ UNCHANGED childProcessesMu
        /\ UNCHANGED <<front, config, childProcesses, killed, fileMod, watcherEvent>>

\* A modification time read again when the child is registered.
RecordedModTimeLate(h) == fileMod[req[h].app]

\* binaryModTime of the new childProcess: currentModTime, which the os.Stat at
\* the top of the call gave.
RecordedModTime(h) == req[h].currentModTime

\* getOrCreateChild, the readiness loop and what follows: a dial succeeded and
\* the child is registered and returned, or none did and the process is
\* killed, the listener closed and an error returned.
getOrCreateChild_Ready(h) ==
    LET a == req[h].app
        p == req[h].cmd
    IN  /\ req[h].pc = "goc_probe"
        /\ IF DialOk(a)
           THEN /\ childProcesses' = [childProcesses EXCEPT ![a] =
                        [pid |-> p, idle |-> 0,
                         binaryModTime |-> RecordedModTime(h),
                         listener |-> ~useSocketMode,
                         socketPath |-> socketPath(a)]]
                /\ ReturnChild(h, p)
                /\ UNCHANGED <<proc, killed, listeners>>
           ELSE /\ proc' = KillProc(proc, p)
                /\ killed' = killed \cup {p}
                /\ listeners' = listeners \ {p}
                /\ ReturnErr(h, "dial")
                /\ UNCHANGED childProcesses
        /\ UNCHANGED <<front, config, sockFile, fileMod, watcherEvent>>

getOrCreateChild(h) ==
    \/ getOrCreateChild_Lock(h)
    \/ getOrCreateChild_Check(h)
    \/ getOrCreateChild_Retire(h)
    \/ getOrCreateChild_Start(h)
    \/ getOrCreateChild_Ready(h)

\* proxyRequest, first lines: lastUsed of the held childProcess is set under
\* the mutex.  The object is the registry's entry only while its pid is.
proxyRequest_Touch(h) ==
    LET a == req[h].app
    IN  /\ req[h].pc = "proxy_lock"
        /\ MutexFree
        /\ childProcesses' = IF childProcesses[a].pid = req[h].child
                             THEN [childProcesses EXCEPT ![a] = Touch(@)]
                             ELSE childProcesses
        /\ req' = [req EXCEPT ![h].pc = "proxy_dial"]
        /\ UNCHANGED <<front, config, childProcessesMu, os, fileMod, watcherEvent>>

\* A dial whose failure tears the entry down.
proxyRequest_DialTeardown(h) ==
    /\ req[h].pc = "proxy_dial"
    /\ IF DialOk(req[h].app)
       THEN /\ req' = [req EXCEPT ![h].pc = "proxy_exchange"]
            /\ UNCHANGED childProcesses
       ELSE /\ req' = [req EXCEPT ![h].pc = "done", ![h].status = 502]
            /\ childProcesses' = [childProcesses EXCEPT ![req[h].app] = NoChild]
    /\ UNCHANGED <<front, config, childProcessesMu, os, fileMod, watcherEvent>>

\* proxyRequest, fcgiclient.Dial on child.socketPath: 502 if it fails.
proxyRequest_Dial(h) ==
    /\ req[h].pc = "proxy_dial"
    /\ IF DialOk(req[h].app)
       THEN req' = [req EXCEPT ![h].pc = "proxy_exchange"]
       ELSE req' = [req EXCEPT ![h].pc = "done", ![h].status = 502]
    /\ UNCHANGED <<front, config, childProcessesMu, childProcesses, os, fileMod,
                   watcherEvent>>

\* proxyRequest, fcgi.Request and the relay of the response: 200 from a worker
\* that serves, 502 when the exchange fails.
proxyRequest_Exchange(h) ==
    /\ req[h].pc = "proxy_exchange"
    /\ \E ok \in BOOLEAN :
          /\ ok => Served(req[h].app)
          /\ ~ok => ~Queued(req[h].app)
          /\ req' = [req EXCEPT ![h].pc = "done", ![h].status = IF ok THEN 200 ELSE 502]
    /\ UNCHANGED <<front, config, childProcessesMu, childProcesses, os, fileMod,
                   watcherEvent>>

proxyRequest(h) ==
    \/ proxyRequest_Touch(h)
    \/ proxyRequest_Dial(h)
    \/ proxyRequest_Exchange(h)

\* The response is written and the handler's goroutine ends.
Respond(h) ==
    /\ req[h].pc = "done"
    /\ req' = [req EXCEPT ![h] = IdleReq]
    /\ UNCHANGED <<front, config, childProcessesMu, childProcesses, os, fileMod,
                   watcherEvent>>

\* ---------------------------------------------------------- idle reaper

\* A cycle that starts whoever holds the mutex.
cleanupChildProcesses_LockAnyway ==
    /\ childProcessesMu' = Reaper
    /\ UNCHANGED <<front, config, childProcesses, os, fileMod, watcherEvent, req>>

\* cleanupChildProcesses takes the mutex at the top of a cycle.
cleanupChildProcesses_Lock ==
    /\ MutexFree
    /\ childProcessesMu' = Reaper
    /\ UNCHANGED <<front, config, childProcesses, os, fileMod, watcherEvent, req>>

\* Verdicts of a cycle without the idle branch, without the test for a
\* timeout of zero, and with an idle time equal to the timeout counted as over it.
ReaperVerdictNoIdle(a, gone) ==
    LET c == childProcesses[a]
    IN  IF c = NoChild THEN "keep"
        ELSE IF c.pid \in gone THEN "reap"
        ELSE "keep"
ReaperVerdictZeroCounts(a, gone) ==
    LET c == childProcesses[a]
    IN  IF c = NoChild THEN "keep"
        ELSE IF c.pid \in gone THEN "reap"
        ELSE IF c.idle > DefaultIdleTimeout THEN "idle"
        ELSE "keep"
ReaperVerdictAtTimeout(a, gone) ==
    LET c == childProcesses[a]
    IN  IF c = NoChild THEN "keep"
        ELSE IF c.pid \in gone THEN "reap"
        ELSE IF DefaultIdleTimeout > 0 /\ c.idle >= DefaultIdleTimeout THEN "idle"
        ELSE "keep"

\* What one cycle does with the entry of app a, `gone` being the pids for which
\* signal 0 reports an error: "reap" (wait, release, delete), "idle" (kill,
\* wait, release, delete) or "keep".
ReaperVerdict(a, gone) ==
    LET c == childProcesses[a]
    IN  IF c = NoChild THEN "keep"
        ELSE IF c.pid \in gone THEN "reap"
        ELSE IF DefaultIdleTimeout > 0 /\ c.idle > DefaultIdleTimeout THEN "idle"
        ELSE "keep"

Registered == {childProcesses[a].pid : a \in Apps} \ {0}

\* One cycle over every entry, then Unlock (the sleep of five seconds follows).
cleanupChildProcesses_Scan ==
    /\ childProcessesMu = Reaper
    /\ \E gone \in SUBSET Registered :
          /\ \A p \in Registered : (p \notin gone) \in Signal0Nil(p)
          /\ LET removed == {a \in Apps : ReaperVerdict(a, gone) # "keep"}
                 rpids == {childProcesses[a].pid : a \in removed}
             IN  /\ proc' = [p \in Pids |-> IF p \in rpids THEN Reaped ELSE proc[p]]
                 /\ killed' = killed \ rpids
                 /\ listeners' = listeners \ {childProcesses[a].pid :
                                    a \in {b \in removed : childProcesses[b].listener}}
                 /\ sockFile' = [a \in Apps |->
                                    IF a \in removed /\ ~childProcesses[a].listener
                                    THEN 0 ELSE sockFile[a]]
                 /\ childProcesses' = [a \in Apps |->
                                    IF a \in removed THEN NoChild ELSE childProcesses[a]]
    /\ childProcessesMu' = NoHolder
    /\ UNCHANGED <<front, config, fileMod, watcherEvent, req>>

cleanupChildProcesses ==
    \/ cleanupChildProcesses_Lock
    \/ cleanupChildProcesses_Scan

\* -------------------------------------------------------- binary watcher

\* watchFcgiBinaries receives a Write event for a file of WebRoot: for a name
\* with the .fcgi suffix it takes the mutex, any other name is dropped.
watchFcgiBinaries_Event(name) ==
    /\ watcherEvent = NoEvent
    /\ \/ /\ HasSuffixFcgi(name)
          /\ MutexFree
          /\ childProcessesMu' = Watcher
          /\ watcherEvent' = name
       \/ /\ ~HasSuffixFcgi(name)
          /\ UNCHANGED <<childProcessesMu, watcherEvent>>
    /\ UNCHANGED <<front, config, childProcesses, os, fileMod, req>>

\* watchFcgiBinaries under the mutex: an entry for exactly that path is killed,
\* os.Remove(child.socketPath) is called (the abstract address is no file, so
\* nothing is removed for it) and the entry deleted; then Unlock.
watchFcgiBinaries_Retire ==
    LET a == watcherEvent
        c == childProcesses[a]
    IN  /\ watcherEvent # NoEvent
        /\ IF c # NoChild
           THEN /\ proc' = KillProc(proc, c.pid)
                /\ killed' = killed \cup {c.pid}
                /\ sockFile' = IF useSocketMode THEN [sockFile EXCEPT ![a] = 0] ELSE sockFile
                /\ childProcesses' = Delete(childProcesses, a)
           ELSE UNCHANGED <<proc, killed, sockFile, childProcesses>>
        /\ childProcessesMu' = NoHolder
        /\ watcherEvent' = NoEvent
        /\ UNCHANGED <<front, config, listeners, fileMod, req>>

watchFcgiBinaries(names) ==
    \/ \E name \in names : watchFcgiBinaries_Event(name)
    \/ watchFcgiBinaries_Retire

\* ------------------------------------------------------------ environment

\* Time passes: time.Since(lastUsed) grows for every entry.
Tick ==
    /\ \E a \in Apps : childProcesses[a] # NoChild /\ childProcesses[a].idle < IdleCap
    /\ childProcesses' = [a \in Apps |->
            IF childProcesses[a] # NoChild /\ childProcesses[a].idle < IdleCap
            THEN [childProcesses[a] EXCEPT !.idle = @ + 1]
            ELSE childProcesses[a]]
    /\ UNCHANGED <<front, config, childProcessesMu, os, fileMod, watcherEvent, req>>

\* A worker binary is rewritten: its modification time advances.
WriteBinary(a) ==
    /\ fileMod[a] < MaxMod
    /\ fileMod' = [fileMod EXCEPT ![a] = @ + 1]
    /\ UNCHANGED <<front, config, childProcessesMu, childProcesses, os, watcherEvent, req>>

\* A started worker becomes ready: in socket mode it binds its socket path
\* (net.Listen fails on an existing file), in the other mode it accepts from
\* the listener it inherited as standard input.
ChildServe(p) ==
    /\ proc[p].st = "started"
    /\ useSocketMode => sockFile[proc[p].app] = 0
    /\ proc' = [proc EXCEPT ![p].st = "serving"]
    /\ sockFile' = IF useSocketMode THEN [sockFile EXCEPT ![proc[p].app] = p] ELSE sockFile
    /\ UNCHANGED <<front, config, childProcessesMu, childProcesses, killed, listeners,
                   fileMod, watcherEvent, req>>

\* A worker terminates on its own account (it crashes, exits, or obeys SIGTERM).
\* Its socket file, if any, stays behind.
ChildExit(p) ==
    /\ proc[p].st \in RunningSt
    /\ proc' = [proc EXCEPT ![p].st = "exited"]
    /\ UNCHANGED <<front, config, childProcessesMu, childProcesses, killed, sockFile,
                   listeners, fileMod, watcherEvent, req>>

\* The Go runtime finalizes a net.Listener nothing refers to any more (neither
\* the registry nor a handler's *childProcess) and closes its descriptor.
Referenced(p) ==
    \/ \E a \in Apps : childProcesses[a].pid = p
    \/ \E h \in Handlers : req[h].child = p \/ req[h].cmd = p

FinalizeListener(p) ==
    /\ p \in listeners
    /\ ~Referenced(p)
    /\ listeners' = listeners \ {p}
    /\ UNCHANGED <<front, config, childProcessesMu, childProcesses, proc, killed,
                   sockFile, fileMod, watcherEvent, req>>

Environment(apps) ==
    \/ Tick
    \/ \E a \in apps : WriteBinary(a)
    \/ \E p \in Pids : ChildServe(p) \/ ChildExit(p) \/ FinalizeListener(p)

\* ------------------------------------------------- the request in full

\* The requests handed to the handler: any path, or the empty string for a
\* path; a method, a content length (-1: unknown) and headers.  The Host
\* header is r.Host and no member of r.Header; every header has one value,
\* here its own name.
NoPath == <<"">>
ContentType == <<"Content", "-", "Type">>
HeaderNames == {<<"a", "-", "a">>, <<"a", "_", "a">>, ContentType}
Methods == {<<"GET">>, <<"POST">>}
ContentLengths == {-1, 3, 12}
Host == <<"test.local">>
Requests ==
    {[method |-> m, contentLength |-> n, header |-> [x \in names |-> x]] :
        m \in Methods, n \in ContentLengths, names \in SUBSET HeaderNames}

\* What a worker answers, and what os.Stat and the static root can hold.
WorkerResponses ==
    {[status |-> st, header |-> hs, body |-> b] :
        st \in {200, 404}, hs \in SUBSET {"X-App: 1"}, b \in {"", "4"}}
FileKinds == {"missing", "directory", "regular", "executable"}
StaticEntries == {"a.txt", ".git"}

\* The key of the environment entry the loop over r.Header writes for a header.
HeaderKey(name) == <<"HTTP_">> \o ToUpper(ReplaceHyphens(name))

\* r.Header.Get(name): the value, or the empty string.
HeaderGet(r, name) == IF name \in DOMAIN r.header THEN r.header[name] ELSE <<>>

\* The entries proxyRequest writes before the loop over the headers.
FixedEnv(r, path, cmdPath) ==
    (<<"REQUEST_METHOD">> :> r.method) @@
    (<<"SERVER_PROTOCOL">> :> <<"HTTP/1.1">>) @@
    (<<"QUERY_STRING">> :> <<>>) @@
    (<<"CONTENT_TYPE">> :> HeaderGet(r, ContentType)) @@
    (<<"CONTENT_LENGTH">> :> Sprintf_d(r.contentLength)) @@
    (<<"SCRIPT_FILENAME">> :> cmdPath) @@
    (<<"SCRIPT_NAME">> :> path) @@
    (<<"REQUEST_URI">> :> path) @@
    (<<"DOCUMENT_URI">> :> path) @@
    (<<"DOCUMENT_ROOT">> :> WebRoot) @@
    (<<"SERVER_SOFTWARE">> :> <<"go-fcgi-spawner">>) @@
    (<<"REMOTE_ADDR">> :> <<"client">>) @@
    (<<"HTTP_", "HOST">> :> Host)

\* The environments the loop over r.Header can leave: one entry for every key
\* of a header, holding the value of a header with that key (the last one the
\* map iteration reaches, which is any of them).
HeaderEnvs(r) ==
    LET keys == {HeaderKey(x) : x \in DOMAIN r.header}
    IN  {e \in [keys -> {r.header[x] : x \in DOMAIN r.header}] :
            \A k \in keys : \E x \in DOMAIN r.header : HeaderKey(x) = k /\ e[k] = r.header[x]}
Envs(r, path, cmdPath) == {e @@ FixedEnv(r, path, cmdPath) : e \in HeaderEnvs(r)}

\* An Open that refuses no name.
HiddenNone(name) == FALSE

\* noHiddenFS.Open refuses a name with "/." in it: the name is cleaned and
\* rooted, so this is a name with a segment that starts with a dot.
Hidden(name) == \E i \in 1..Len(name) : name[i] \in DotNames

\* noHiddenFile.Readdir: the entries whose names do not start with a dot.
Readdir(entries) == {f \in entries : f \notin DotNames}

\* The response of http.Error(w, ..., code).
Error(code) == [status |-> code, header |-> {}, body |-> ""]

\* spawnerHandler, up to the containment check: 500 for an empty path, else
\* appName and targetPath, and 403 if targetPath has not WebRoot as prefix.
spawnerHandler_Resolve(path) ==
    LET appName == Base(path)
        targetPath == Join(WebRoot, appName)
    IN  /\ gateway.pc = "running"
        /\ http.pc = "idle"
        /\ http' = IF path = NoPath
                   THEN [IdleHttp EXCEPT !.pc = "done", !.path = path, !.response = Error(500)]
                   ELSE IF ~HasPrefix(targetPath, WebRoot)
                   THEN [IdleHttp EXCEPT !.pc = "done", !.path = path,
                                         !.targetPath = targetPath, !.response = Error(403)]
                   ELSE [IdleHttp EXCEPT !.pc = "stat", !.path = path,
                                         !.targetPath = targetPath]
        /\ UNCHANGED <<back, launch, cycle, StaticRoot, gateway>>

\* The choice without the test of the mode bits.
IsWorkerBinaryAnyMode(targetPath, kind) ==
    /\ kind \in {"regular", "executable"}
    /\ targetPath # <<>>
    /\ targetPath[Len(targetPath)] \in FcgiNames

\* spawnerHandler, os.Stat(targetPath) and the choice it makes: a regular
\* executable file with the .fcgi suffix goes to getOrCreateChild, anything
\* else to the static file server if there is one, else 404.
IsWorkerBinary(targetPath, kind) ==
    /\ kind = "executable"
    /\ targetPath # <<>>
    /\ targetPath[Len(targetPath)] \in FcgiNames

spawnerHandler_Stat(kind) ==
    /\ gateway.pc = "running"
    /\ http.pc = "stat"
    /\ http' = IF IsWorkerBinary(http.targetPath, kind)
               THEN [http EXCEPT !.pc = "getOrCreate", !.statted = TRUE,
                                 !.fileInfo = kind, !.identity = http.targetPath]
               ELSE IF gateway.staticFileServer
               THEN [http EXCEPT !.pc = "static", !.statted = TRUE, !.fileInfo = kind]
               ELSE [http EXCEPT !.pc = "done", !.statted = TRUE, !.fileInfo = kind,
                                 !.response = Error(404)]
    /\ UNCHANGED <<back, launch, cycle, StaticRoot, gateway>>

\* spawnerHandler, the call of getOrCreateChild: a child, or an error and 500.
spawnerHandler_GetOrCreate(ok) ==
    /\ gateway.pc = "running"
    /\ http.pc = "getOrCreate"
    /\ http' = IF ok THEN [http EXCEPT !.pc = "proxy"]
               ELSE [http EXCEPT !.pc = "done", !.response = Error(500)]
    /\ UNCHANGED <<back, launch, cycle, StaticRoot, gateway>>

\* proxyRequest, from Dial to the environment: 502 if the dial fails, else
\* the environment of request r.
proxyRequest_Env(r, dialed) ==
    /\ gateway.pc = "running"
    /\ http.pc = "proxy"
    /\ IF dialed
       THEN \E env \in Envs(r, http.path, http.identity) :
               http' = [http EXCEPT !.pc = "exchange", !.request = r, !.env = env]
       ELSE http' = [http EXCEPT !.pc = "done", !.response = Error(502)]
    /\ UNCHANGED <<back, launch, cycle, StaticRoot, gateway>>

\* proxyRequest, fcgi.Request and the relay: 502 if the exchange fails, else
\* the worker's headers, status code and body are written to the client.
proxyRequest_Relay(answers) ==
    /\ gateway.pc = "running"
    /\ http.pc = "exchange"
    /\ \/ http' = [http EXCEPT !.pc = "done", !.request = NoRequest, !.env = <<>>,
                               !.response = Error(502)]
       \/ \E resp \in answers :
             http' = [http EXCEPT !.pc = "done", !.request = NoRequest, !.env = <<>>,
                                  !.worker = resp,
                                  !.response = [status |-> resp.status,
                                                header |-> resp.header,
                                                body |-> resp.body]]
    /\ UNCHANGED <<back, launch, cycle, StaticRoot, gateway>>

\* staticFileServer.ServeHTTP over noHiddenFS: the file server cleans the
\* path and opens it; a hidden name is not found, a file is sent, a directory
\* is listed without its hidden entries.
ServeHTTP(kind, entries) ==
    LET name == Clean(http.path)
    IN  /\ gateway.pc = "running"
        /\ http.pc = "static"
        /\ http' = [http EXCEPT !.pc = "done", !.staticInfo = kind, !.response =
                      IF Hidden(name) \/ kind = "missing" THEN Error(404)
                      ELSE IF kind = "directory"
                      THEN [status |-> 200, header |-> {}, body |-> "listing"]
                      ELSE [status |-> 200, header |-> {}, body |-> "file"],
                                    !.listing =
                      IF ~Hidden(name) /\ kind = "directory" THEN Readdir(entries) ELSE {}]
        /\ UNCHANGED <<back, launch, cycle, StaticRoot, gateway>>

\* spawnerHandler returns: the response is complete.
spawnerHandler_Return ==
    /\ http.pc = "done"
    /\ http' = IdleHttp
    /\ UNCHANGED <<back, launch, cycle, StaticRoot, gateway>>

\* ------------------------------------------------------- main, startup

\* log.Fatal: the process exits, and with it the watcher and every handler.
Fatal(cause) == [pc |-> "fatal", cause |-> cause, watcher |-> "off", registry |-> "nil",
                 staticFileServer |-> FALSE]

\* A Spawner that has a file server whatever the static root.
NewFileServerAlways(root) == TRUE

\* s.staticFileServer is set if and only if cfg.StaticRoot is not empty.
NewFileServer(root) == root # ""

\* NewSpawner: the Spawner keeps cfg and gets an empty map; a static root that
\* is set must be a directory, or log.Fatalf, and gives the file server.
NewSpawner ==
    /\ gateway.pc = "start"
    /\ IF StaticRoot = "bad"
       THEN /\ gateway' = Fatal("ConfigError")
            /\ UNCHANGED childProcesses
       ELSE /\ gateway' = [gateway EXCEPT !.pc = "running", !.registry = "made",
                               !.staticFileServer = NewFileServer(StaticRoot)]
            /\ childProcesses' = [a \in Apps |-> NoChild]
    /\ UNCHANGED <<config, childProcessesMu, os, fileMod, watcherEvent, req,
                   launch, cycle, StaticRoot, http>>

\* watchFcgiBinaries, fsnotify.NewWatcher and watcher.Add(WebRoot): log.Fatal
\* if either fails, else the watcher runs.
watchFcgiBinaries_Setup(ok) ==
    /\ gateway.pc = "running"
    /\ gateway.watcher = "off"
    /\ gateway' = IF ok THEN [gateway EXCEPT !.watcher = "on"] ELSE Fatal("watcher")
    /\ http' = IF ok THEN http ELSE IdleHttp
    /\ UNCHANGED <<back, launch, cycle, StaticRoot>>

\* main: http.ListenAndServe returns an error, and log.Fatal.
ListenAndServe_Err ==
    /\ gateway.pc = "running"
    /\ gateway' = Fatal("ListenAndServe")
    /\ http' = IdleHttp
    /\ UNCHANGED <<back, launch, cycle, StaticRoot>>

\* ------------------------------------------- the retirement, in steps

\* getOrCreateChild, the lookup: no entry, or an entry that is not usable,
\* whose process runs or has exited and was not waited on.
getOrCreateChild_Found(old) ==
    /\ launch.pc = "idle"
    /\ launch' = IF old = "none"
                 THEN [launch EXCEPT !.pc = "load"]
                 ELSE [launch EXCEPT !.pc = "term", !.found = TRUE, !.old = old,
                                     !.entry = TRUE, !.transport = TRUE]
    /\ UNCHANGED <<back, cycle, StaticRoot, gateway, http>>

\* Process().Signal(syscall.SIGTERM); an error is logged.
Retire_Sigterm ==
    /\ launch.pc = "term"
    /\ launch' = [launch EXCEPT !.pc = "sleep", !.sigs = Append(@, "SIGTERM")]
    /\ UNCHANGED <<back, cycle, StaticRoot, gateway, http>>

\* time.Sleep(1 * time.Second): a running process obeys SIGTERM and exits in
\* that time, or does not.
Retire_Sleep(exits) ==
    /\ launch.pc = "sleep"
    /\ launch' = IF exits /\ launch.old \in RunningSt
                 THEN [launch EXCEPT !.pc = "recheck", !.old = "exited",
                                     !.exitedInGrace = TRUE]
                 ELSE [launch EXCEPT !.pc = "recheck"]
    /\ UNCHANGED <<back, cycle, StaticRoot, gateway, http>>

\* if Process().Signal(syscall.Signal(0)) == nil { Process().Kill() }
Retire_Recheck ==
    /\ launch.pc = "recheck"
    /\ \E alive \in Signal0NilOf(launch.old) :
          launch' = IF alive
                    THEN [launch EXCEPT !.pc = "wait", !.alive = "yes",
                                        !.sigs = Append(@, "SIGKILL"), !.old = "exited"]
                    ELSE [launch EXCEPT !.pc = "wait", !.alive = "no"]
    /\ UNCHANGED <<back, cycle, StaticRoot, gateway, http>>

\* Process().Wait(): blocks until the process has exited, and reaps it.  A
\* process that ignored SIGTERM and was not killed has not exited.
Retire_Wait ==
    /\ launch.pc = "wait"
    /\ launch.old = "exited"
    /\ launch' = [launch EXCEPT !.pc = "release", !.old = "reaped"]
    /\ UNCHANGED <<back, cycle, StaticRoot, gateway, http>>

\* A retirement that leaves the transport as it is.
Retire_ReleaseSkipped ==
    /\ launch.pc = "release"
    /\ launch' = [launch EXCEPT !.pc = "delete"]
    /\ UNCHANGED <<back, cycle, StaticRoot, gateway, http>>

\* child.listener.Close(), or os.Remove(child.socketPath).
Retire_Release ==
    /\ launch.pc = "release"
    /\ launch' = [launch EXCEPT !.pc = "delete", !.transport = FALSE]
    /\ UNCHANGED <<back, cycle, StaticRoot, gateway, http>>

\* delete(s.childProcesses, appPath); the launch follows.
Retire_Delete ==
    /\ launch.pc = "delete"
    /\ launch' = [launch EXCEPT !.pc = "load", !.entry = FALSE]
    /\ UNCHANGED <<back, cycle, StaticRoot, gateway, http>>

\* ------------------------------------------------- the environment file

\* os.Environ() of the spawner.  A line is the sequence of its characters, an
\* environment file the sequence of its lines.
Environ == <<(<<"H", "=", "h">>)>>
EnvLines ==
    {<<>>, <<" ">>, <<"#">>, <<"=">>, <<"K">>, <<" ", "K", " ">>,
     <<"K", "=", "v">>, <<" ", "K", "=", "v", " ">>, <<"\t", "K", "=", "v">>,
     <<"#", "K", "=", "v">>, <<" ", "#", "K", "=", "v">>,
     <<"K", "=", " ", "v">>, <<"K", "=", "v", "=", "v">>}
EnvFiles == SeqsUpTo(EnvLines, MaxLines)

\* strings.TrimSpace: the white space at both ends is cut off.
WhiteSpace == {" ", "\t"}
RECURSIVE TrimLeft(_)
TrimLeft(line) ==
    IF line # <<>> /\ Head(line) \in WhiteSpace THEN TrimLeft(Tail(line)) ELSE line
RECURSIVE TrimRight(_)
TrimRight(line) ==
    IF line # <<>> /\ line[Len(line)] \in WhiteSpace
    THEN TrimRight(SubSeq(line, 1, Len(line) - 1)) ELSE line

\* A trim of the left end only.
TrimLeftOnly(line) == TrimLeft(line)

TrimSpace(line) == TrimRight(TrimLeft(line))

\* len(strings.SplitN(line, "=", 2)): two parts if there is a "=", else one.
SplitN2(line) == IF \E i \in 1..Len(line) : line[i] = "=" THEN 2 ELSE 1

\* The loop over the lines of the file: a trimmed line that is not empty, has
\* no "#" in front and splits in two is appended to childEnv.
RECURSIVE ScanLines(_, _)
ScanLines(childEnv, lines) ==
    IF lines = <<>> THEN childEnv
    ELSE LET line == TrimSpace(Head(lines))
         IN  ScanLines(IF line # <<>> /\ line[1] # "#" /\ SplitN2(line) = 2
                       THEN Append(childEnv, line) ELSE childEnv,
                       Tail(lines))

\* getOrCreateChild, the .env file: if os.Stat finds it, childEnv is
\* os.Environ() and the lines the loop appends; else childEnv stays nil.
getOrCreateChild_Env(exists, file) ==
    /\ launch.pc = "load"
    /\ launch' = IF exists
                 THEN [launch EXCEPT !.pc = "env", !.exists = TRUE, !.file = file,
                                     !.childEnvSet = TRUE,
                                     !.childEnv = ScanLines(Environ, file)]
                 ELSE [launch EXCEPT !.pc = "env"]
    /\ UNCHANGED <<back, cycle, StaticRoot, gateway, http>>

\* cmd.Env = childEnv if childEnv is not nil, and cmd.Start: with cmd.Env nil
\* the process has the environment of the spawner.
getOrCreateChild_CmdStart ==
    /\ launch.pc = "env"
    /\ launch' = [launch EXCEPT !.pc = "started",
                     !.environ = IF launch.childEnvSet THEN launch.childEnv ELSE Environ]
    /\ UNCHANGED <<back, cycle, StaticRoot, gateway, http>>

\* getOrCreateChild returns: the next launch may find another file.
getOrCreateChild_Done ==
    /\ launch.pc = "started"
    /\ launch' = IdleLaunch
    /\ UNCHANGED <<back, cycle, StaticRoot, gateway, http>>

\* ---------------------------------------------- the reaper's cycle, in steps

\* The results of os.Remove(child.socketPath): nil, an error that says the
\* file is not there, any other error.
RemoveResults == {"nil", "notExist", "other"}

\* A loop that a failure ends: the entries not yet produced are not visited.
RemainingStops(todo, a, failed) == IF failed THEN {} ELSE todo \ {a}

\* The range over the map goes on to the entries not yet produced, whether
\* or not the cleanup of this one failed.
Remaining(todo, a, failed) == todo \ {a}

\* The top of a cycle: Lock, and the range over the map starts.
cleanupChildProcesses_Begin ==
    LET entries == {a \in Apps : childProcesses[a] # NoChild}
    IN  /\ cycle.pc = "sleep"
        /\ MutexFree
        /\ childProcessesMu' = Reaper
        /\ cycle' = [IdleCycle EXCEPT !.pc = "scan", !.entries = entries,
                                      !.todo = entries]
        /\ UNCHANGED <<StaticRoot, gateway, http, launch, config, childProcesses, os,
                       fileMod, watcherEvent, req>>

\* The body of the loop for the entry of app a.  An entry that is neither gone
\* nor idle is kept.  Otherwise: Kill (idle branch only); Wait, whose error is
\* logged and leaves the process as it was; listener.Close(), or os.Remove,
\* whose error is logged unless it says the file is not there, and a file that
\* could not be removed stays; delete.
cleanupChildProcesses_Visit(a, waitErr, removeErr) ==
    LET c == childProcesses[a]
    IN  /\ cycle.pc = "scan"
        /\ a \in cycle.todo
        /\ (removeErr = "notExist") = (~c.listener /\ sockFile[a] = 0)
        /\ \E alive \in Signal0Nil(c.pid) :
              LET verdict == ReaperVerdict(a, IF alive THEN {} ELSE {c.pid})
                  struck == IF verdict = "idle" THEN KillProc(proc, c.pid) ELSE proc
                  logged == {<<a, "wait">> : e \in {waitErr} \ {FALSE}}
                               \cup {<<a, "remove">> : e \in {removeErr} \cap
                                         (IF c.listener THEN {} ELSE {"other"})}
              IN  IF verdict = "keep"
                  THEN /\ cycle' = [cycle EXCEPT !.todo = Remaining(@, a, FALSE),
                                                 !.visited = @ \cup {a}]
                       /\ UNCHANGED <<childProcesses, os>>
                  ELSE /\ proc' = IF waitErr THEN struck ELSE WaitProc(struck, c.pid)
                       /\ killed' = IF waitErr THEN killed ELSE killed \ {c.pid}
                       /\ listeners' = CloseListener(listeners, c)
                       /\ sockFile' = IF removeErr = "other" THEN sockFile
                                      ELSE RemoveSocket(sockFile, a, c)
                       /\ childProcesses' = [childProcesses EXCEPT ![a] = NoChild]
                       /\ cycle' = [cycle EXCEPT
                                       !.todo = Remaining(@, a, logged # {}
                                                    \/ removeErr = "notExist"),
                                       !.visited = @ \cup {a},
                                       !.logged = @ \cup logged]
        /\ UNCHANGED <<StaticRoot, gateway, http, launch, config, childProcessesMu,
                       fileMod, watcherEvent, req>>

\* The range is over: Unlock, and the sleep of five seconds.
cleanupChildProcesses_Unlock ==
    /\ cycle.pc = "scan"
    /\ cycle.todo = {}
    /\ childProcessesMu' = NoHolder
    /\ cycle' = [cycle EXCEPT !.pc = "sleep"]
    /\ UNCHANGED <<StaticRoot, gateway, http, launch, config, childProcesses, os,
                   fileMod, watcherEvent, req>>

\* The socket file of an app is unlinked by somebody else than the spawner (a
\* worker that closes its listener on the way out, an operator).
UnlinkSocket(a) ==
    /\ useSocketMode
    /\ sockFile[a] # 0
    /\ sockFile' = [sockFile EXCEPT ![a] = 0]
    /\ UNCHANGED <<front, config, childProcessesMu, childProcesses, proc, killed,
                   listeners, fileMod, watcherEvent, req>>

\* ------------------------------------------------------------------ Next

\* The spawner with the request handlers hs, and requests, rewrites and Write
\* events for the worker binaries apps.
NextOf(hs, apps) ==
    \/ \E h \in hs : \E a \in apps : spawnerHandler(h, a)
    \/ \E h \in hs : getOrCreateChild(h) \/ proxyRequest(h) \/ Respond(h)
    \/ cleanupChildProcesses
    \/ watchFcgiBinaries(apps \cup {OtherFile})
    \/ Environment(apps)

Next == NextOf(Handlers, Apps)

\* Every handler and every worker binary.
Spec == Init /\ [][Next]_vars

\* Concurrent requests for one worker binary.
NextOneApp == NextOf(Handlers, {"a.fcgi"})
SpecOneApp == Init /\ [][NextOneApp]_vars

\* One request at a time, every worker binary.
NextOneHandler == NextOf({"h1"}, Apps)
SpecOneHandler == Init /\ [][NextOneHandler]_vars

\* Concurrent requests for every worker binary with the reaper and the
\* watcher, the idle clock left aside (no idle eviction, the workers do not
\* exit on their own) and one of the binaries rewritten.
InitLock == Init /\ DefaultIdleTimeout = 0
NextLock ==
    \/ \E h \in Handlers : \E a \in Apps : spawnerHandler(h, a)
    \/ \E h \in Handlers : getOrCreateChild(h) \/ proxyRequest(h) \/ Respond(h)
    \/ cleanupChildProcesses
    \/ watchFcgiBinaries(Apps \cup {OtherFile})
    \/ WriteBinary("a.fcgi")
    \/ \E p \in Pids : ChildServe(p)
SpecLock == InitLock /\ [][NextLock]_vars

\* The gateway from its start, with one request at a time seen in full and
\* the registry left aside.
InitGateway ==
    /\ DefaultIdleTimeout = 0
    /\ SocketDir = ""
    /\ childProcessesMu = NoHolder
    /\ childProcesses = [a \in Apps |-> NoChild]
    /\ proc = [p \in Pids |-> NoProc]
    /\ killed = {}
    /\ fileMod = [a \in Apps |-> 1]
    /\ sockFile = [a \in Apps |-> 0]
    /\ listeners = {}
    /\ watcherEvent = NoEvent
    /\ req = [h \in Handlers |-> IdleReq]
    /\ StaticRoot \in {"", "static", "bad"}
    /\ gateway = Starting
    /\ http = IdleHttp
    /\ launch = IdleLaunch
    /\ cycle = IdleCycle

NextGateway ==
    \/ NewSpawner
    \/ \E ok \in BOOLEAN : watchFcgiBinaries_Setup(ok)
    \/ ListenAndServe_Err
    \/ \E path \in Paths \cup {NoPath} : spawnerHandler_Resolve(path)
    \/ \E kind \in FileKinds : spawnerHandler_Stat(kind)
    \/ \E ok \in BOOLEAN : spawnerHandler_GetOrCreate(ok)
    \/ \E r \in Requests : \E dialed \in BOOLEAN : proxyRequest_Env(r, dialed)
    \/ proxyRequest_Relay(WorkerResponses)
    \/ \E kind \in FileKinds \ {"executable"} : \E entries \in SUBSET StaticEntries :
          ServeHTTP(kind, entries)
    \/ spawnerHandler_Return

SpecGateway == InitGateway /\ [][NextGateway]_vars

\* The calls of getOrCreateChild that do not return the entry they find, step
\* by step and with every environment file, the registry left aside.
InitLaunch ==
    /\ DefaultIdleTimeout = 0
    /\ SocketDir = ""
    /\ childProcessesMu = NoHolder
    /\ childProcesses = [a \in Apps |-> NoChild]
    /\ proc = [p \in Pids |-> NoProc]
    /\ killed = {}
    /\ fileMod = [a \in Apps |-> 1]
    /\ sockFile = [a \in Apps |-> 0]
    /\ listeners = {}
    /\ watcherEvent = NoEvent
    /\ req = [h \in Handlers |-> IdleReq]
    /\ StaticRoot = ""
    /\ gateway = Serving
    /\ http = IdleHttp
    /\ launch = IdleLaunch
    /\ cycle = IdleCycle

NextLaunch ==
    \/ \E old \in {"none", "serving", "exited"} : getOrCreateChild_Found(old)
    \/ Retire_Sigterm
    \/ \E exits \in BOOLEAN : Retire_Sleep(exits)
    \/ Retire_Recheck
    \/ Retire_Wait
    \/ Retire_Release
    \/ Retire_Delete
    \/ \E exists \in BOOLEAN : \E file \in EnvFiles : getOrCreateChild_Env(exists, file)
    \/ getOrCreateChild_CmdStart
    \/ getOrCreateChild_Done

SpecLaunch == InitLaunch /\ [][NextLaunch]_vars

\* The reaper's cycle entry by entry, over the registry as requests have left
\* it: the workers of the set `apps` registered and serving, in the order of
\* their start.
Registry(apps) ==
    [a \in Apps |->
        IF a \in apps
        THEN [pid |-> IF a = "a.fcgi" THEN 1 ELSE Cardinality(apps), idle |-> 0,
              binaryModTime |-> 1, listener |-> ~useSocketMode,
              socketPath |-> socketPath(a)]
        ELSE NoChild]

InitCycle ==
    /\ DefaultIdleTimeout \in IdleTimeouts
    /\ SocketDir \in {"", "/sock"}
    /\ childProcessesMu = NoHolder
    /\ \E apps \in SUBSET Apps :
          /\ childProcesses = Registry(apps)
          /\ proc = [p \in Pids |->
                IF \E a \in apps : Registry(apps)[a].pid = p
                THEN LET a == CHOOSE b \in apps : Registry(apps)[b].pid = p
                     IN  [app |-> a, st |-> "serving", args |-> Command(a).args,
                          stdin |-> Command(a).stdin, image |-> 1]
                ELSE NoProc]
          /\ sockFile = [a \in Apps |-> IF useSocketMode THEN Registry(apps)[a].pid ELSE 0]
          /\ listeners = IF useSocketMode THEN {}
                         ELSE {Registry(apps)[a].pid : a \in apps}
    /\ killed = {}
    /\ fileMod = [a \in Apps |-> 1]
    /\ watcherEvent = NoEvent
    /\ req = [h \in Handlers |-> IdleReq]
    /\ StaticRoot = ""
    /\ gateway = Serving
    /\ http = IdleHttp
    /\ launch = IdleLaunch
    /\ cycle = IdleCycle

NextCycle ==
    \/ cleanupChildProcesses_Begin
    \/ \E a \in Apps : \E waitErr \in BOOLEAN : \E removeErr \in RemoveResults :
          cleanupChildProcesses_Visit(a, waitErr, removeErr)
    \/ cleanupChildProcesses_Unlock
    \/ Tick
    \/ \E p \in Pids : ChildExit(p)
    \/ \E a \in Apps : UnlinkSocket(a)

SpecCycle == InitCycle /\ [][NextCycle]_vars

\* Concurrent requests for one worker binary, with no idle eviction, under the
\* scheduling the code has.  A goroutine that can take its next step takes it (the steps of
\* getOrCreateChild inside its critical section, of proxyRequest, of the
\* response; the reaper's cycle every five seconds; the watcher's handling of an
\* event it has received).  A goroutine blocked in Lock gets the mutex if it
\* is free again and again (sync.Mutex hands a starving waiter the mutex).
\* Requests, rewrites and the workers are under no obligation.
Fairness ==
    /\ \A h \in Handlers :
          /\ SF_vars(getOrCreateChild_Lock(h))
          /\ WF_vars(getOrCreateChild_Check(h))
          /\ WF_vars(getOrCreateChild_Retire(h))
          /\ WF_vars(getOrCreateChild_Start(h))
          /\ WF_vars(getOrCreateChild_Ready(h))
          /\ SF_vars(proxyRequest_Touch(h))
          /\ WF_vars(proxyRequest_Dial(h))
          /\ WF_vars(Respond(h))
    /\ SF_vars(cleanupChildProcesses_Lock)
    /\ WF_vars(cleanupChildProcesses_Scan)
    /\ WF_vars(watchFcgiBinaries_Retire)

NextFair ==
    \/ \E h \in Handlers : spawnerHandler(h, "a.fcgi")
    \/ \E h \in Handlers : getOrCreateChild(h) \/ proxyRequest(h) \/ Respond(h)
    \/ cleanupChildProcesses
    \/ watchFcgiBinaries({"a.fcgi", OtherFile})
    \/ WriteBinary("a.fcgi")
    \/ \E p \in Pids : ChildServe(p) \/ ChildExit(p)

SpecFair == InitLock /\ [][NextFair]_vars /\ Fairness

\* ------------------------------------------------------------ properties

\* The positions of a handler inside getOrCreateChild's critical section and
\* inside proxyRequest.
InGetOrCreate == {"goc_stat", "goc_retire", "goc_spawn", "goc_probe"}
InProxy == {"proxy_lock", "proxy_dial", "proxy_exchange"}

\* The running worker processes of an app.
WorkersOf(a) == {p \in Pids : proc[p].app = a /\ proc[p].st \in RunningSt}

\* The step that ends a reaper cycle, and the step in which the watcher has
\* dealt with its event.
ReaperCycle == childProcessesMu = Reaper /\ childProcessesMu' = NoHolder
WatcherHandled == watcherEvent # NoEvent /\ watcherEvent' = NoEvent

\* The transport of entry c of app a is released in the next state: its
\* listener is closed, or its socket file is gone.
Released(a, c) ==
    /\ c.pid \notin listeners'
    /\ useSocketMode => sockFile'[a] = 0

\* Entry c of app a, its process and its transport are the same in the next state.
Untouched(a, c) ==
    /\ childProcesses'[a] = c
    /\ proc'[c.pid] = proc[c.pid]
    /\ (c.pid \in listeners') = (c.pid \in listeners)
    /\ sockFile'[a] = sockFile[a]

\* C1: in every reachable state the registry holds at most one worker per
\* executable, whatever the handlers, the reaper and the watcher are doing: an
\* entry's process is a process of that executable, no process is registered
\* under two executables, and of every executable at most one worker process
\* runs, which is the registered one or the one a handler is about to register
\* (so no worker was ever registered over another).
C1_OneWorkerPerIdentity ==
    \A a \in Apps :
        /\ Cardinality(WorkersOf(a)) <= 1
        /\ WorkersOf(a) \subseteq {childProcesses[a].pid} \cup
                                  {req[h].cmd : h \in {g \in Handlers : req[g].pc = "goc_probe"}}
        /\ childProcesses[a] # NoChild =>
              /\ proc[childProcesses[a].pid].app = a
              /\ \A b \in Apps \ {a} : childProcesses[b].pid # childProcesses[a].pid

\* Two handlers asked for the same never-seen binary at once: one has
\* registered the only process ever started while the other still waits for
\* the mutex.
C1_Witness ==
    \E h \in Handlers : \E g \in Handlers \ {h} :
        /\ req[h].pc = "proxy_lock"
        /\ req[g].pc = "goc_lock"
        /\ req[g].app = req[h].app
        /\ childProcesses[req[h].app].pid = req[h].child
        /\ Cardinality(FreePids) = MaxPid - 1

\* C2: of the calls of getOrCreateChild that run concurrently for one
\* executable only one starts a process: a call starts a process only while
\* no entry is registered for the executable and no other call is inside the
\* critical section, and a call that finds the registered worker of an
\* unmodified binary returns exactly that worker and starts no process.
C2_OneSpawner ==
    [][\A h \in Handlers :
          LET a == req[h].app
              c == childProcesses[a]
          IN  /\ (req[h].pc = "goc_spawn" /\ req'[h].pc = "goc_probe") =>
                    /\ c = NoChild
                    /\ \A g \in Handlers \ {h} : req[g].pc \notin InGetOrCreate
              /\ (/\ req[h].pc = "goc_stat"
                  /\ req'[h].pc \notin {"goc_stat", "done"}
                  /\ c # NoChild
                  /\ fileMod[a] <= c.binaryModTime) =>
                    /\ req'[h].pc = "proxy_lock"
                    /\ req'[h].child = c.pid
                    /\ proc' = proc]_vars

\* Both handlers are past getOrCreateChild for the same executable with the
\* same worker, and one process was started in all.
C2_Witness ==
    \E h \in Handlers : \E g \in Handlers \ {h} :
        /\ req[h].pc \in InProxy
        /\ req[g].pc \in InProxy
        /\ req[g].app = req[h].app
        /\ req[g].child = req[h].child
        /\ req[h].child # 0
        /\ Cardinality(FreePids) = MaxPid - 1

\* C3: a handler is in proxyRequest (where the connection to the worker is
\* made) only with a worker that getOrCreateChild returned to it: it enters
\* proxyRequest from getOrCreateChild only, holding a process that was started
\* and that is, at that moment, the registry's entry of the executable.
C3_RegisteredBeforeExchange ==
    [][\A h \in Handlers :
          req'[h].pc \in InProxy =>
              /\ req'[h].child # 0
              /\ proc'[req'[h].child].st # "none"
              /\ req[h].pc \notin InProxy =>
                    /\ req[h].pc \in {"goc_stat", "goc_probe"}
                    /\ childProcesses'[req'[h].app].pid = req'[h].child]_vars

\* The first request for an executable is in its exchange with the only
\* process ever started, which is registered.
C3_Witness ==
    \E h \in Handlers :
        /\ req[h].pc = "proxy_exchange"
        /\ childProcesses[req[h].app].pid = req[h].child
        /\ Cardinality(FreePids) = MaxPid - 1

\* C4, as the code has it: a call of getOrCreateChild that finds the entry of
\* an executable whose modification time on disk is later than the recorded
\* one reads that time and retires the entry (the old process is waited on,
\* its transport released, the entry removed) before it starts anything; if
\* the replacement starts and becomes reachable, it is registered with the
\* modification time the call read, and otherwise the call returns an error
\* and no entry is registered.
C4_StaleReplaced ==
    [][\A h \in Handlers :
          LET a == req[h].app
              c == childProcesses[a]
          IN  /\ (/\ req[h].pc = "goc_stat"
                  /\ req'[h].pc \notin {"goc_stat", "done"}
                  /\ c # NoChild
                  /\ fileMod[a] > c.binaryModTime) =>
                    /\ req'[h].pc = "goc_retire"
                    /\ req'[h].currentModTime = fileMod[a]
                    /\ UNCHANGED <<childProcesses, proc>>
              /\ (req[h].pc = "goc_retire" /\ req'[h].pc # "goc_retire") =>
                    /\ req'[h].pc = "goc_spawn"
                    /\ proc'[c.pid].st = "reaped"
                    /\ childProcesses'[a] = NoChild
                    /\ Released(a, c)
                    /\ FreePids' = FreePids
              /\ (req[h].pc \in {"goc_retire", "goc_spawn"} /\ req'[h].pc \in InGetOrCreate) =>
                    req'[h].currentModTime = req[h].currentModTime
              /\ (req[h].pc \in {"goc_spawn", "goc_probe"} /\ req[h].child # 0) =>
                    \/ req'[h].pc \in {"goc_spawn", "goc_probe"}
                    \/ /\ req'[h].pc = "proxy_lock"
                       /\ req'[h].child \notin {0, req[h].child}
                       /\ childProcesses'[a].pid = req'[h].child
                       /\ childProcesses'[a].binaryModTime = req[h].currentModTime
                    \/ /\ req'[h].pc = "done"
                       /\ req'[h].status = 500
                       /\ childProcesses'[a] = NoChild]_vars

\* C4, as the specification has it: the call that retired the entry of a
\* modified executable ends with a replacement registered whose recorded
\* modification time is the file's.
C4_AsStated ==
    [][\A h \in Handlers :
          (/\ req[h].pc \in {"goc_spawn", "goc_probe"}
           /\ req[h].child # 0
           /\ req'[h].pc \notin {"goc_spawn", "goc_probe"}) =>
              /\ req'[h].pc = "proxy_lock"
              /\ childProcesses'[req[h].app].pid = req'[h].child
              /\ childProcesses'[req[h].app].binaryModTime = fileMod'[req[h].app]]_vars

\* A replacement is registered with the later modification time of its binary
\* and returned, the process before it having been waited on.
C4_Witness ==
    \E h \in Handlers :
        /\ req[h].pc = "proxy_lock"
        /\ childProcesses[req[h].app].pid = req[h].child
        /\ childProcesses[req[h].app].binaryModTime > 1
        /\ childProcesses[req[h].app].binaryModTime = fileMod[req[h].app]
        /\ \E p \in Pids : proc[p].st = "reaped"

\* C5: a call of getOrCreateChild for an unmodified binary whose registered
\* worker runs starts no process and returns that entry: lastUsed is set to
\* now, and the recorded modification time, the process and the transport
\* stay as they are.
C5_ReuseUnmodified ==
    [][\A h \in Handlers :
          LET a == req[h].app
              c == childProcesses[a]
          IN  (/\ req[h].pc = "goc_stat"
               /\ req'[h].pc \notin {"goc_stat", "done"}
               /\ c # NoChild
               /\ proc[c.pid].st \in RunningSt
               /\ fileMod[a] = c.binaryModTime) =>
                  /\ req'[h].pc = "proxy_lock"
                  /\ req'[h].child = c.pid
                  /\ childProcesses' = [childProcesses EXCEPT ![a] =
                         [pid |-> c.pid, idle |-> 0, binaryModTime |-> c.binaryModTime,
                          listener |-> c.listener, socketPath |-> c.socketPath]]
                  /\ UNCHANGED <<proc, sockFile, listeners>>]_vars

\* A first request was answered by a worker, and a second request got the
\* same worker, which still runs and whose binary is unmodified.
C5_Witness ==
    \E h \in Handlers : \E g \in Handlers \ {h} :
        LET a == req[h].app
        IN  /\ req[h].pc = "done" /\ req[h].status = 200
            /\ req[g].pc = "proxy_lock" /\ req[g].app = a
            /\ req[g].child = req[h].child
            /\ childProcesses[a].pid = req[g].child
            /\ childProcesses[a].idle = 0
            /\ childProcesses[a].binaryModTime = fileMod[a]
            /\ proc[req[g].child].st \in RunningSt

\* C6: with a nonzero idle timeout, a reaper cycle removes every entry whose
\* process runs and whose time since lastUsed exceeds the timeout: the process
\* is killed and waited on, the transport released, the entry deleted.
C6_IdleEvicted ==
    [][(DefaultIdleTimeout > 0 /\ ReaperCycle) =>
          \A a \in Apps :
              LET c == childProcesses[a]
              IN  (c # NoChild /\ proc[c.pid].st \in RunningSt
                      /\ c.idle > DefaultIdleTimeout) =>
                     /\ childProcesses'[a] = NoChild
                     /\ proc'[c.pid].st = "reaped"
                     /\ Released(a, c)]_vars

\* A reaper cycle is under way with a running worker idle beyond the nonzero
\* timeout.
C6_Witness ==
    /\ DefaultIdleTimeout > 0
    /\ childProcessesMu = Reaper
    /\ \E a \in Apps :
          /\ childProcesses[a] # NoChild
          /\ proc[childProcesses[a].pid].st \in RunningSt
          /\ childProcesses[a].idle > DefaultIdleTimeout

\* C7: with an idle timeout of zero, a reaper cycle leaves every entry whose
\* process runs as it is, however long it was unused, and such an entry leaves
\* the registry only in the watcher's handling of a Write event for it or in
\* a getOrCreateChild that read a later modification time than the recorded one.
C7_ZeroTimeoutNeverEvicts ==
    [][DefaultIdleTimeout = 0 =>
          \A a \in Apps :
              LET c == childProcesses[a]
              IN  (c # NoChild /\ proc[c.pid].st \in RunningSt) =>
                     /\ ReaperCycle => Untouched(a, c)
                     /\ childProcesses'[a].pid # c.pid =>
                           \/ watcherEvent = a
                           \/ \E h \in Handlers :
                                 /\ req[h].pc = "goc_retire"
                                 /\ req[h].app = a
                                 /\ req[h].currentModTime > c.binaryModTime]_vars

\* A reaper cycle is under way with the timeout zero and a running worker that
\* has been unused for as long as the clock counts.
C7_Witness ==
    /\ DefaultIdleTimeout = 0
    /\ childProcessesMu = Reaper
    /\ \E a \in Apps :
          /\ childProcesses[a] # NoChild
          /\ proc[childProcesses[a].pid].st \in RunningSt
          /\ childProcesses[a].idle = IdleCap

\* C8, as the specification has it: a reaper cycle removes every entry whose
\* process has exited on its own (it is waited on, its transport released,
\* the entry deleted), whatever its idle time and the timeout.
C8_ExitedReaped ==
    [][ReaperCycle =>
          \A a \in Apps :
              LET c == childProcesses[a]
              IN  (c # NoChild /\ proc[c.pid].st = "exited") =>
                     /\ childProcesses'[a] = NoChild
                     /\ proc'[c.pid].st = "reaped"
                     /\ Released(a, c)]_vars

\* C9: a reaper cycle leaves as it is (process, entry and transport) every
\* entry whose process runs and whose time since lastUsed does not exceed the
\* idle timeout.
C9_ActiveKept ==
    [][ReaperCycle =>
          \A a \in Apps :
              LET c == childProcesses[a]
              IN  (c # NoChild /\ proc[c.pid].st \in RunningSt
                      /\ c.idle <= DefaultIdleTimeout) =>
                     Untouched(a, c)]_vars

\* A reaper cycle is under way with a running worker whose idle time has just
\* reached the nonzero timeout.
C9_Witness ==
    /\ DefaultIdleTimeout > 0
    /\ childProcessesMu = Reaper
    /\ \E a \in Apps :
          /\ childProcesses[a] # NoChild
          /\ proc[childProcesses[a].pid].st \in RunningSt
          /\ childProcesses[a].idle = DefaultIdleTimeout

\* C10, as the specification has it: handling a Write event for a worker
\* binary, the watcher starts no process; if the binary has an entry, its
\* process is killed, its transport released and the entry removed, in either
\* launch mode; if it has none, nothing changes.
C10_WatcherRetires ==
    [][WatcherHandled =>
          LET a == watcherEvent
              c == childProcesses[a]
          IN  /\ FreePids' = FreePids
              /\ c # NoChild =>
                    /\ proc'[c.pid].st \notin RunningSt
                    /\ childProcesses'[a] = NoChild
                    /\ Released(a, c)
              /\ c = NoChild => UNCHANGED <<childProcesses, proc, sockFile, listeners>>]_vars

\* The transport of entry c of app a is in place: its listener is open, or
\* the socket file its process bound is there.
Held(a, c) ==
    IF useSocketMode THEN sockFile[a] = c.pid ELSE c.pid \in listeners

\* C11, as the specification has it: once the watcher has retired the worker
\* of an executable (its killed process is still unwaited), a call of
\* getOrCreateChild that finds no entry fails only on the environment file,
\* the socket directory or the start of the binary, in either launch mode,
\* and a worker it registers carries the modification time the call read.
C11_RespawnAfterWatcher ==
    [][\A h \in Handlers :
          LET a == req[h].app
          IN  /\ (/\ req[h].pc = "goc_spawn"
                  /\ req[h].child = 0
                  /\ \E p \in killed : proc[p].app = a
                  /\ req'[h].pc = "done") =>
                    req'[h].err \in {"env", "start"}
              /\ (/\ req[h].pc = "goc_probe"
                  /\ req[h].child = 0
                  /\ req'[h].pc = "proxy_lock") =>
                    childProcesses'[a].binaryModTime = req[h].currentModTime]_vars

\* C12, as the specification has it: a step that takes an entry out of the
\* registry, whoever takes it, finds the entry's transport in place and
\* releases it, and the transport of an entry that stays is not released.
C12_ReleasedOnce ==
    [][\A a \in Apps :
          LET c == childProcesses[a]
          IN  c # NoChild =>
                 IF childProcesses'[a].pid # c.pid
                 THEN Held(a, c) /\ Released(a, c)
                 ELSE Held(a, c) => Held(a, c)']_vars

\* C15: a failed dial and a failed exchange of proxyRequest are answered 502
\* and change nothing of the registry, the processes and the transports; the
\* only thing proxyRequest writes is lastUsed of the entry it was given.
C15_ProtocolErrorLeavesWorker ==
    [][\A h \in Handlers :
          /\ (req[h].pc \in {"proxy_dial", "proxy_exchange"} /\ req'[h].pc = "done") =>
                /\ req'[h].status \in {200, 502}
                /\ (req[h].pc = "proxy_dial" => req'[h].status = 502)
                /\ UNCHANGED <<childProcesses, childProcessesMu, proc, killed,
                               sockFile, listeners>>
          /\ (req[h].pc = "proxy_lock" /\ req'[h].pc = "proxy_dial") =>
                /\ \A a \in Apps :
                      \/ childProcesses'[a] = childProcesses[a]
                      \/ /\ a = req[h].app
                         /\ childProcesses[a].pid = req[h].child
                         /\ childProcesses'[a] =
                               [pid |-> childProcesses[a].pid, idle |-> 0,
                                binaryModTime |-> childProcesses[a].binaryModTime,
                                listener |-> childProcesses[a].listener,
                                socketPath |-> childProcesses[a].socketPath]
                /\ UNCHANGED <<proc, killed, sockFile, listeners>>]_vars

\* A request was answered 502 and the worker it was for is still registered.
C15_Witness ==
    \E h \in Handlers :
        /\ req[h].pc = "done"
        /\ req[h].status = 502
        /\ req[h].child # 0
        /\ childProcesses[req[h].app].pid = req[h].child

\* C16: when no dial of the readiness loop succeeds, getOrCreateChild kills
\* the process it started, registers nothing and returns an error; the handler
\* answers 500 and then only returns: no connection to a worker, no second
\* launch.
C16_ReadinessTimeout ==
    [][\A h \in Handlers :
          LET a == req[h].app
          IN  /\ (req[h].pc = "goc_probe" /\ req'[h].pc # "goc_probe") =>
                    IF useSocketMode /\ (sockFile[a] = 0 \/ proc[sockFile[a]].st # "serving")
                    THEN /\ req'[h].pc = "done"
                         /\ req'[h].status = 500
                         /\ req'[h].err = "dial"
                         /\ proc'[req[h].cmd].st \notin RunningSt
                         /\ childProcesses'[a] = NoChild
                         /\ childProcesses[a] = NoChild
                    ELSE req'[h].pc = "proxy_lock"
              /\ (req[h].pc = "done" /\ req[h].status = 500) =>
                    /\ req'[h].pc \in {"done", "idle"}
                    /\ FreePids' = FreePids]_vars

\* The readiness loop ran out: the handler answers 500, the process it
\* started was killed and the executable has no entry.
C16_Witness ==
    \E h \in Handlers :
        /\ req[h].pc = "done"
        /\ req[h].status = 500
        /\ req[h].err = "dial"
        /\ childProcesses[req[h].app] = NoChild
        /\ \E p \in killed : proc[p].app = req[h].app /\ proc[p].st = "exited"

\* The request path, taken under the worker-binary root and cleaned, leaves
\* the root.
ResolvesOutside(path) == ~HasPrefix(Clean(WebRoot \o path), WebRoot)

\* C13, as the specification has it: a request whose path resolves outside
\* the worker-binary root is answered 403, and the handler neither stats a
\* file nor passes an executable on for it.
C13_TraversalForbidden ==
    (http.pc # "idle" /\ http.path # NoPath /\ ResolvesOutside(http.path)) =>
        /\ http.pc = "done"
        /\ http.response = Error(403)
        /\ ~http.statted
        /\ http.identity = <<>>

\* C14: when the file os.Stat finds is missing, a directory, not executable
\* or without the .fcgi suffix, the handler never calls getOrCreateChild and
\* nothing is proxied: the request goes to the static file server if the
\* static root is set, and is answered 404 if it is not.
C14_NonBinaryNeverSpawns ==
    (/\ http.statted
     /\ \/ http.fileInfo # "executable"
        \/ http.targetPath[Len(http.targetPath)] \notin FcgiNames) =>
        /\ http.identity = <<>>
        /\ http.worker = NoResponse
        /\ http.env = <<>>
        /\ IF StaticRoot = ""
           THEN http.pc = "done" /\ http.response = Error(404) /\ http.staticInfo = ""
           ELSE \/ http.pc = "static" /\ http.response = NoResponse
                \/ http.pc = "done" /\ http.staticInfo # ""

\* A regular file with the .fcgi suffix and no execute bit was found, there is
\* no static root, and the answer is 404.
C14_Witness ==
    /\ http.statted
    /\ http.fileInfo = "regular"
    /\ http.targetPath[Len(http.targetPath)] \in FcgiNames
    /\ StaticRoot = ""
    /\ http.pc = "done"
    /\ http.response = Error(404)

\* C17, as the specification has it: the only error that ends the gateway is
\* the configuration error of startup; a watcher that cannot be created or
\* subscribed, and every later error, leave it running.
C17_OnlyConfigErrorFatal ==
    gateway.pc = "fatal" => gateway.cause = "ConfigError"

\* C18, as the specification has it: a request for a path under a worker
\* binary, /my-app.fcgi/users/123, is resolved to that binary: the path that
\* is statted and passed to getOrCreateChild is <root>/my-app.fcgi.
C18_SubPathRouted ==
    (/\ Len(http.path) >= 2
     /\ http.path[1] \in FcgiNames
     /\ \A i \in 2..Len(http.path) : http.path[i] \notin DotNames
     /\ http.pc \notin {"idle", "stat"}) =>
        /\ http.targetPath = WebRoot \o <<http.path[1]>>
        /\ http.statted
        /\ http.fileInfo = "executable" => http.identity = WebRoot \o <<http.path[1]>>

\* C19: the environment proxyRequest hands to the worker has REQUEST_METHOD
\* with the request's method (POST for a POST), CONTENT_LENGTH with the
\* decimal digits of the body length the request declares, HTTP_HOST with
\* r.Host, SCRIPT_NAME with the request path, and for every header of the
\* request the entry HTTP_<NAME>, NAME being the header's name in upper case
\* with "_" for every "-", holding the value of a header of that name; and
\* the response written to the client is the worker's status code, headers
\* and body.
C19_EnvironmentAndRelay ==
    LET r == http.request
        Name(x) == CASE x = <<"a", "-", "a">> -> <<"HTTP_", "A", "_", "A">>
                     [] x = <<"a", "_", "a">> -> <<"HTTP_", "A", "_", "A">>
                     [] x = <<"Content", "-", "Type">> -> <<"HTTP_", "CONTENT", "_", "TYPE">>
        Decimal(n) == CASE n = 3 -> <<"3">>
                        [] n = 12 -> <<"1", "2">>
    IN  /\ http.pc = "exchange" =>
              /\ http.env[<<"REQUEST_METHOD">>] = r.method
              /\ r.contentLength >= 0 =>
                    http.env[<<"CONTENT_LENGTH">>] = Decimal(r.contentLength)
              /\ http.env[<<"HTTP_", "HOST">>] = <<"test.local">>
              /\ http.env[<<"SCRIPT_NAME">>] = http.path
              /\ \A x \in DOMAIN r.header :
                    /\ Name(x) \in DOMAIN http.env
                    /\ \E y \in DOMAIN r.header :
                          Name(y) = Name(x) /\ http.env[Name(x)] = r.header[y]
              /\ {k \in DOMAIN http.env : k[1] = "HTTP_"} =
                    {Name(x) : x \in DOMAIN r.header} \cup {<<"HTTP_", "HOST">>}
        /\ (http.pc = "done" /\ http.worker # NoResponse) =>
              /\ http.response.status = http.worker.status
              /\ http.response.header = http.worker.header
              /\ http.response.body = http.worker.body

\* A POST with a body of three bytes and a Content-Type header is about to be
\* sent to the worker.
C19_Witness ==
    /\ http.pc = "exchange"
    /\ http.request.method = <<"POST">>
    /\ http.request.contentLength = 3
    /\ <<"Content", "-", "Type">> \in DOMAIN http.request.header
    /\ http.env[<<"CONTENT_LENGTH">>] = <<"3">>
    /\ http.env[<<"HTTP_", "CONTENT", "_", "TYPE">>] = <<"Content", "-", "Type">>

\* C20: the static file server never serves a file or directory whose name
\* starts with a dot.  A request it gets whose path, as the file server
\* opens it, has a segment that starts with a dot is answered 404 whether or
\* not the file exists, nothing of it is listed, and a directory listing
\* holds no entry whose name starts with a dot.
C20_HiddenNeverServed ==
    LET name == Clean(http.path)
        dotted == \E i \in 1..Len(name) : name[i] \in {".", "..", ".git"}
    IN  /\ (http.pc = "done" /\ http.staticInfo # "" /\ dotted) =>
              /\ http.response = Error(404)
              /\ http.listing = {}
        /\ (http.staticInfo # "" /\ http.response.status = 200) => ~dotted
        /\ \A f \in http.listing : f \notin {".", "..", ".git"}

\* The static file server was asked for a file under .git that exists, and
\* answered 404.
C20_Witness ==
    /\ http.pc = "done"
    /\ StaticRoot = "static"
    /\ http.staticInfo = "regular"
    /\ \E i \in 1..Len(Clean(http.path)) : Clean(http.path)[i] = ".git"
    /\ http.response = Error(404)

\* C21: Config.SocketDir never changes, and it decides how every worker is
\* started.  With a socket directory the process gets one argument, the path
\* <SocketDir>/<base name>.sock, nothing as standard input, and no file is at
\* that path when it starts; without one it gets no argument and, as standard
\* input, the listener the spawner has just opened.
C21_ModeDecidesLaunch ==
    [][/\ SocketDir' = SocketDir
       /\ \A p \in Pids :
             (proc[p].st = "none" /\ proc'[p].st # "none") =>
                 LET a == proc'[p].app
                 IN  /\ proc'[p].st = "started"
                     /\ IF SocketDir # ""
                        THEN /\ proc'[p].args = <<(<<SocketDir, a, ".sock">>)>>
                             /\ proc'[p].stdin = "none"
                             /\ sockFile'[a] = 0
                             /\ listeners' = listeners
                        ELSE /\ proc'[p].args = <<>>
                             /\ proc'[p].stdin = "listener"
                             /\ p \notin listeners
                             /\ p \in listeners'
       /\ \A p \in Pids :
             (proc[p].st \in RunningSt /\ proc'[p].st \in RunningSt) =>
                 proc'[p].args = proc[p].args /\ proc'[p].stdin = proc[p].stdin]_vars

\* A worker was started in socket mode with its socket path as its one
\* argument and no file at that path, after an earlier process of the same
\* executable was killed.
C21_Witness ==
    \E p \in Pids :
        /\ SocketDir # ""
        /\ proc[p].st = "started"
        /\ proc[p].args = <<(<<SocketDir, proc[p].app, ".sock">>)>>
        /\ sockFile[proc[p].app] = 0
        /\ \E q \in killed : q # p /\ proc[q].app = proc[p].app

\* Sequences put end to end.
RECURSIVE Flatten(_)
Flatten(seqs) == IF seqs = <<>> THEN <<>> ELSE Head(seqs) \o Flatten(Tail(seqs))

\* C22: with an environment file the started process has the environment of
\* the spawner followed, in the order of the file, by the lines that after
\* trimming are not blank, do not start with "#" and have a "=" in them, each
\* as trimmed; every other line adds nothing; without the file the process
\* has the environment of the spawner.
C22_EnvFileMerged ==
    LET Adds(line) ==
            CASE line = <<"=">> -> <<line>>
              [] line = <<"K", "=", "v">> -> <<line>>
              [] line = <<" ", "K", "=", "v", " ">> -> <<(<<"K", "=", "v">>)>>
              [] line = <<"\t", "K", "=", "v">> -> <<(<<"K", "=", "v">>)>>
              [] line = <<"K", "=", " ", "v">> -> <<line>>
              [] line = <<"K", "=", "v", "=", "v">> -> <<line>>
              [] OTHER -> <<>>
    IN  launch.pc = "started" =>
            launch.environ =
                IF launch.exists
                THEN <<(<<"H", "=", "h">>)>> \o
                     Flatten([i \in 1..Len(launch.file) |-> Adds(launch.file[i])])
                ELSE <<(<<"H", "=", "h">>)>>

\* A process was started with a file of two lines, a comment and a padded
\* KEY=VALUE line: its environment is the spawner's and the trimmed line.
C22_Witness ==
    /\ launch.pc = "started"
    /\ launch.exists
    /\ launch.file = <<(<<"#", "K", "=", "v">>), (<<" ", "K", "=", "v", " ">>)>>
    /\ launch.environ = <<(<<"H", "=", "h">>), (<<"K", "=", "v">>)>>

\* C23: the Spawner NewSpawner returns has the configuration it was given, a
\* map childProcesses that is made and empty, and a static file server if and
\* only if Config.StaticRoot is not empty.
C23_NewSpawner ==
    [][/\ (gateway.pc = "start" /\ gateway'.pc = "running") =>
             /\ <<DefaultIdleTimeout, SocketDir, StaticRoot>>' =
                    <<DefaultIdleTimeout, SocketDir, StaticRoot>>
             /\ gateway'.registry = "made"
             /\ \A a \in Apps : childProcesses'[a] = NoChild
       /\ gateway'.pc = "running" =>
             /\ gateway'.registry = "made"
             /\ gateway'.staticFileServer <=> StaticRoot' # ""]_vars

\* NewSpawner has returned a Spawner for a static root: it has the file
\* server and an empty map, and nothing else has run yet.
C23_Witness ==
    /\ gateway.pc = "running"
    /\ gateway.watcher = "off"
    /\ StaticRoot = "static"
    /\ gateway.staticFileServer
    /\ gateway.registry = "made"
    /\ \A a \in Apps : childProcesses[a] = NoChild
    /\ http = IdleHttp

\* C24, as the specification has it: the health check of getOrCreateChild
\* returns the entry it finds if and only if the entry's process has not
\* exited and the binary's modification time is not later than the recorded
\* one; an entry whose process exited on its own is not returned.
C24_HealthCheck ==
    [][\A h \in Handlers :
          LET a == req[h].app
              c == childProcesses[a]
          IN  (/\ req[h].pc = "goc_stat"
               /\ c # NoChild
               /\ req'[h].pc \in {"proxy_lock", "goc_retire"}) =>
                 (req'[h].pc = "proxy_lock" <=>
                     (proc[c.pid].st \in RunningSt /\ fileMod[a] <= c.binaryModTime))]_vars

C26_RegisteredWhenAccepting ==
    [][\A h \in Handlers :
          (req[h].pc = "goc_probe" /\ req'[h].pc = "proxy_lock") =>
              /\ childProcesses'[req[h].app].pid = req[h].cmd
              /\ proc[req[h].cmd].st = "serving"]_vars

\* C27: from its Lock to its return (the grace period and the readiness loop
\* included) a call of getOrCreateChild holds the mutex: no other call of
\* getOrCreateChild is or gets past its Lock, the reaper and the watcher do
\* not get the mutex, no other handler sets lastUsed, and the registry changes
\* by that call only.  A handler that dials or exchanges with a worker holds
\* no mutex, whoever else does.
C27_SpawnBlocksOthers ==
    [][\A h \in Handlers :
          /\ req[h].pc \in {"goc_stat", "goc_retire", "goc_spawn", "goc_probe"} =>
                /\ childProcessesMu = [task |-> "handler", id |-> h]
                /\ childProcessesMu' \in {childProcessesMu, [task |-> "none", id |-> ""]}
                /\ watcherEvent = "" /\ watcherEvent' = ""
                /\ \A g \in Handlers \ {h} :
                      /\ req[g].pc \notin {"goc_stat", "goc_retire", "goc_spawn", "goc_probe"}
                      /\ req'[g].pc \notin {"goc_stat", "goc_retire", "goc_spawn", "goc_probe"}
                      /\ req[g].pc = "proxy_lock" => req'[g].pc = "proxy_lock"
                /\ childProcesses' # childProcesses => req'[h] # req[h]
          /\ req[h].pc \in {"proxy_dial", "proxy_exchange"} =>
                /\ childProcessesMu # [task |-> "handler", id |-> h]
                /\ req'[h] # req[h] => UNCHANGED <<childProcessesMu, childProcesses>>]_vars

\* One handler is in its exchange with the worker of one executable while the
\* other, holding the mutex, waits for the process it started for another
\* executable, and a third request could not get past Lock.
C27_Witness ==
    /\ req["h1"].pc = "proxy_exchange"
    /\ req["h2"].pc = "goc_probe"
    /\ req["h1"].app # req["h2"].app
    /\ childProcessesMu = [task |-> "handler", id |-> "h2"]
    /\ childProcesses[req["h1"].app].pid = req["h1"].child

\* C28: the map childProcesses and lastUsed of its entries are read and
\* written under the mutex only.  A step that changes the map is a step of
\* the task that holds the mutex (a handler inside getOrCreateChild, the
\* reaper in its cycle, the watcher with its event), or the locked write of
\* lastUsed in proxyRequest, made while nobody holds the mutex; and the tasks
\* inside getOrCreateChild, the reaper's cycle and the watcher's retirement
\* are never two.
C28_MapUnderMutex ==
    [][/\ \A h \in Handlers :
             req[h].pc \in InGetOrCreate <=> childProcessesMu = Handler(h)
       /\ watcherEvent # NoEvent <=> childProcessesMu = Watcher
       /\ Cardinality({h \in Handlers : req[h].pc \in InGetOrCreate})
             + (IF watcherEvent # NoEvent THEN 1 ELSE 0)
             + (IF childProcessesMu = Reaper THEN 1 ELSE 0) <= 1
       /\ childProcesses' # childProcesses =>
             \/ \E h \in Handlers :
                   /\ childProcessesMu = Handler(h)
                   /\ req'[h] # req[h]
                   /\ \A g \in Handlers \ {h} : req'[g] = req[g]
             \/ childProcessesMu = Reaper /\ childProcessesMu' = NoHolder
             \/ childProcessesMu = Watcher /\ childProcessesMu' = NoHolder
             \/ \E h \in Handlers :
                   /\ childProcessesMu = NoHolder /\ childProcessesMu' = NoHolder
                   /\ req[h].pc = "proxy_lock" /\ req'[h].pc = "proxy_dial"
                   /\ \A a \in Apps :
                         childProcesses'[a] # childProcesses[a] =>
                            /\ a = req[h].app
                            /\ childProcesses'[a] = [childProcesses[a] EXCEPT !.idle = 0]]_vars

\* The watcher is inside its retirement with an entry to remove while one
\* handler waits at the Lock of getOrCreateChild and the other at the Lock of
\* proxyRequest.
C28_Witness ==
    /\ childProcessesMu = Watcher
    /\ childProcesses[watcherEvent] # NoChild
    /\ req["h1"].pc = "goc_lock"
    /\ req["h2"].pc = "proxy_lock"

\* C29: binaryModTime of an entry is written once, when the entry is made.
\* As long as the map holds the same childProcess for an executable its
\* binaryModTime is the same, whatever requests, reaper cycles and watcher
\* events do and however the file changes; a later time on disk is only ever
\* found in a new entry, which has the time its call read.
C29_ModTimeFixed ==
    [][\A a \in Apps :
          LET c == childProcesses[a]
              d == childProcesses'[a]
          IN  /\ (c # NoChild /\ d.pid = c.pid) => d.binaryModTime = c.binaryModTime
              /\ (d # NoChild /\ d.pid # c.pid) =>
                    /\ c = NoChild
                    /\ \E h \in Handlers :
                          /\ req[h].pc = "goc_probe"
                          /\ req[h].app = a
                          /\ d.pid = req[h].cmd
                          /\ d.binaryModTime = req[h].currentModTime]_vars

\* The file of a registered worker has a later time than the entry records
\* and a call has just found that out: the entry still has its own time.
C29_Witness ==
    \E h \in Handlers :
        LET c == childProcesses[req[h].app]
        IN  /\ req[h].pc = "goc_retire"
            /\ c # NoChild
            /\ req[h].currentModTime > c.binaryModTime
            /\ fileMod[req[h].app] > c.binaryModTime

\* C30: two entries of the map never have the same process, the same socket
\* path or abstract address, or the same listener: the entries of different
\* executables have different transports.
C30_NothingShared ==
    \A a, b \in Apps :
        (a # b /\ childProcesses[a] # NoChild /\ childProcesses[b] # NoChild) =>
            /\ childProcesses[a].pid # childProcesses[b].pid
            /\ childProcesses[a].socketPath # childProcesses[b].socketPath
            /\ childProcesses[a].socketPath # <<>>
            /\ proc[childProcesses[a].pid].st \in RunningSt =>
                  proc[childProcesses[a].pid].app = a
            /\ ~(sockFile[a] # 0 /\ sockFile[a] = sockFile[b])

\* Two executables have a worker each, in socket mode, each bound to its own
\* socket file.
C30_Witness ==
    /\ SocketDir # ""
    /\ \A a \in Apps :
          /\ childProcesses[a] # NoChild
          /\ sockFile[a] = childProcesses[a].pid
    /\ childProcesses["a.fcgi"].socketPath = <<SocketDir, "a.fcgi", ".sock">>
    /\ childProcesses["b.fcgi"].socketPath = <<SocketDir, "b.fcgi", ".sock">>

\* The step in which the reaper's loop deals with the entry of app a.
Visits(a) == cycle.pc = "scan" /\ a \in cycle.todo /\ a \in cycle'.visited

\* What every reaper cycle keeps to, whatever fails: a visit takes exactly its
\* entry off the entries to visit; a wait error is logged and a removal error
\* other than a missing file is logged, and the entry is deleted all the same;
\* the mutex is the reaper's all through the range; and the step that ends
\* the cycle comes when every entry registered at its start was visited, with
\* none of the entries a failure was logged for left, and frees the mutex.
CycleGoesOn ==
    /\ \A a \in Apps :
          Visits(a) =>
             LET c == childProcesses[a]
                 removed == childProcesses'[a] = NoChild
             IN  /\ cycle'.todo = cycle.todo \ {a}
                 /\ cycle'.visited = cycle.visited \cup {a}
                 /\ childProcessesMu' = Reaper
                 /\ <<a, "wait">> \in cycle'.logged <=>
                       (removed /\ proc'[c.pid].st # "reaped")
                 /\ <<a, "remove">> \in cycle'.logged <=>
                       (removed /\ ~c.listener /\ sockFile'[a] # 0)
                 /\ cycle'.logged # cycle.logged => removed
                 /\ \A b \in Apps \ {a} : childProcesses'[b] = childProcesses[b]
    /\ cycle.pc = "scan" => childProcessesMu = Reaper
    /\ (cycle.pc = "scan" /\ cycle'.pc = "sleep") =>
          /\ cycle.visited = cycle.entries
          /\ \A a \in Apps : (\E k \in {"wait", "remove"} : <<a, k>> \in cycle.logged) =>
                                childProcesses'[a] = NoChild
          /\ childProcessesMu' = NoHolder

\* C31, amended: within a reaper cycle a cleanup failure on one entry does not
\* stop the cycle: a wait error and a socket file that cannot be removed are
\* logged, a socket file that is already gone is passed over without a log
\* line, and in each case that entry is still removed from the registry, every
\* remaining entry is still visited in the same cycle and the lock is released
\* at the end of the cycle.
C31_FailureNotFatal ==
    [][/\ CycleGoesOn
       /\ \A a \in Apps :
             (Visits(a) /\ ~childProcesses[a].listener /\ sockFile[a] = 0) =>
                <<a, "remove">> \notin cycle'.logged]_vars

\* C31, as the specification has it: the same, with a log line also for the
\* socket file that was already removed.
C31_AsStated ==
    [][/\ CycleGoesOn
       /\ \A a \in Apps :
             (/\ Visits(a)
              /\ childProcesses'[a] = NoChild
              /\ ~childProcesses[a].listener
              /\ sockFile[a] = 0) =>
                <<a, "remove">> \in cycle'.logged]_vars

\* A cycle over two entries has ended with the mutex free: a failure was
\* logged for one entry, both were visited and both are gone.
C31_Witness ==
    /\ cycle.pc = "sleep"
    /\ childProcessesMu = NoHolder
    /\ cycle.entries = Apps
    /\ cycle.visited = Apps
    /\ \E a \in Apps : \E k \in {"wait", "remove"} :
          /\ <<a, k>> \in cycle.logged
          /\ \A b \in Apps \ {a} : \A j \in {"wait", "remove"} : <<b, j>> \notin cycle.logged
    /\ \A a \in Apps : childProcesses[a] = NoChild

\* C32, as the specification has it: a reaper cycle leaves as it is (process,
\* entry and transport) every entry whose process serves and has a protocol
\* exchange of proxyRequest in progress, however long ago lastUsed was set.
C32_ExchangeKeepsWorker ==
    [][ReaperCycle =>
          \A a \in Apps :
              LET c == childProcesses[a]
              IN  (/\ c # NoChild
                   /\ proc[c.pid].st = "serving"
                   /\ \E h \in Handlers : /\ req[h].pc = "proxy_exchange"
                                          /\ req[h].app = a
                                          /\ req[h].child = c.pid) =>
                     Untouched(a, c)]_vars

\* C33, as the specification has it: outside the critical sections no process
\* the spawner killed is left unwaited, whichever path killed it (the health
\* check, the idle reaper, the watcher, the readiness timeout).
C33_KilledAreWaited ==
    childProcessesMu = NoHolder =>
        \A p \in Pids : p \in killed => proc[p].st = "reaped"

\* C34, as the specification has it: a registered worker process that has
\* exited on its own does not stay registered for ever: its entry is
\* eventually retired, by the health check or by the reaper, whatever the
\* idle timeout and however often requests arrive.
C34_DeadEntryRetired ==
    \A a \in Apps : \A p \in Pids :
        (childProcesses[a].pid = p /\ proc[p].st = "exited")
            ~> (childProcesses[a].pid # p)

\* C35, as the specification has it: while nobody holds the mutex, every
\* process the spawner started and has neither killed nor waited on is the
\* process of exactly one entry, and every listener the spawner has open is
\* the listener of an entry: nothing a failed launch, a failed replacement or
\* a retirement leaves behind runs or listens outside the registry.
C35_NothingOutsideRegistry ==
    childProcessesMu = NoHolder =>
        /\ \A p \in Pids :
              (proc[p].st \in RunningSt \cup {"exited"} /\ p \notin killed) =>
                 Cardinality({a \in Apps : childProcesses[a].pid = p}) = 1
        /\ \A p \in listeners :
              \E a \in Apps : childProcesses[a].pid = p /\ childProcesses[a].listener

\* C36: every call of getOrCreateChild returns, with a worker or with an
\* error, and no longer holds the mutex when it has returned, whichever path it
\* took; so a request waiting for the mutex gets it, and the mutex, whoever
\* holds it (a request, the reaper, the watcher), is free again later.
C36_GetOrCreateReturns ==
    /\ [](\A h \in Handlers :
             req[h].pc \notin InGetOrCreate => childProcessesMu # Handler(h))
    /\ \A h \in Handlers :
          (req[h].pc \in InGetOrCreate \cup {"goc_lock"})
              ~> (req[h].pc \in {"proxy_lock", "done"} /\ childProcessesMu # Handler(h))
    /\ (childProcessesMu # NoHolder) ~> (childProcessesMu = NoHolder)

\* A call has returned an error and another request holds the mutex inside
\* its own call.
C36_Witness ==
    \E h \in Handlers : \E g \in Handlers \ {h} :
        /\ req[h].pc = "done"
        /\ req[h].err \in {"stat", "env", "listen", "start", "dial"}
        /\ childProcessesMu = Handler(g)
        /\ req[g].pc \in InGetOrCreate

\* C37: the modification time an entry records was read before its process
\* was started, so it is never later than that of the binary the process
\* runs; and no rewrite is missed: whenever getOrCreateChild returns an entry
\* it found, the process of that entry runs the binary as it is on disk.
C37_ModTimeReadBeforeStart ==
    [][/\ \A a \in Apps :
             LET c == childProcesses[a]
             IN  c # NoChild => c.binaryModTime <= proc[c.pid].image
       /\ \A h \in Handlers :
             LET a == req[h].app
                 c == childProcesses[a]
             IN  (req[h].pc = "goc_stat" /\ req'[h].pc = "proxy_lock") =>
                    /\ c # NoChild
                    /\ req'[h].child = c.pid
                    /\ proc[c.pid].image = fileMod[a]]_vars

\* A worker is registered whose binary was rewritten between the os.Stat of
\* the call that started it and its start: the recorded time is the earlier one.
C37_Witness ==
    \E a \in Apps :
        /\ childProcesses[a] # NoChild
        /\ proc[childProcesses[a].pid].st \in RunningSt
        /\ childProcesses[a].binaryModTime < proc[childProcesses[a].pid].image

\* C38, as the specification has it: when getOrCreateChild comes to create
\* the transport of a new worker, no transport of an earlier worker of that
\* executable is still held (no listener of the spawner is open on its
\* address, and the launch leaves no socket file of an earlier worker), and
\* the creation does not fail on an address in use.
C38_OldTransportReleasedFirst ==
    [][\A h \in Handlers :
          LET a == req[h].app
          IN  (req[h].pc = "goc_spawn" /\ req'[h].pc # "goc_spawn") =>
                 /\ \A p \in listeners : proc[p].app # a
                 /\ req'[h].err # "listen"
                 /\ (useSocketMode /\ req'[h].pc = "goc_probe") => sockFile'[a] = 0]_vars

\* C39: while nobody holds the mutex, the registry has no entry whose process
\* the spawner itself has killed or waited on: the health check, the reaper
\* and the watcher delete the entry in the critical section in which they kill
\* or wait.
C39_NoRetiredEntry ==
    childProcessesMu = NoHolder =>
        \A a \in Apps :
            LET c == childProcesses[a]
            IN  c # NoChild => (c.pid \notin killed /\ proc[c.pid].st # "reaped")

\* The mutex is free, a worker the spawner killed is still unwaited, and the
\* registry holds another worker of the same executable, one that runs.
C39_Witness ==
    /\ childProcessesMu = NoHolder
    /\ \E a \in Apps : \E p \in killed :
          /\ proc[p].app = a
          /\ childProcesses[a] # NoChild
          /\ childProcesses[a].pid # p
          /\ proc[childProcesses[a].pid].st \in RunningSt

\* C40: no step of a call of getOrCreateChild for one executable, whether it
\* ends with a worker or with an error, and no handling of a Write event for
\* one executable, adds, removes or changes the entry, a process or the
\* transport of another executable.
C40_OtherIdentitiesUntouched ==
    [][LET Same(b) ==
               /\ childProcesses'[b] = childProcesses[b]
               /\ sockFile'[b] = sockFile[b]
               /\ \A p \in Pids :
                     (proc[p].app = b \/ proc'[p].app = b) =>
                        /\ proc'[p] = proc[p]
                        /\ (p \in listeners') = (p \in listeners)
                        /\ (p \in killed') = (p \in killed)
       IN  /\ \A h \in Handlers :
                (req[h].pc \in InGetOrCreate \cup {"goc_lock"} /\ req'[h] # req[h]) =>
                   \A b \in Apps \ {req[h].app} : Same(b)
           /\ WatcherHandled => \A b \in Apps \ {watcherEvent} : Same(b)]_vars

\* The worker of one executable was retired by the watcher or replaced by a
\* call of getOrCreateChild, and the worker of another executable is
\* registered and runs with its transport in place.
C40_Witness ==
    \E a \in Apps : \E b \in Apps \ {a} :
        /\ \E p \in Pids : proc[p].app = a /\ proc[p].st = "exited" /\ p \in killed
        /\ childProcesses[a] = NoChild
        /\ childProcesses[b] # NoChild
        /\ proc[childProcesses[b].pid].st = "serving"
        /\ Held(b, childProcesses[b])

====
